---------------------------- MODULE Spec2Model ----------------------------
(***************************************************************************)
(* Layout generator (layout/gen_r2r_dac.py, layout/sg13g2_layers.py) and   *)
(* design-rule checker (layout/run_drc.py) of tiny_sid_chip.               *)
(*                                                                         *)
(* Lengths.  The Python code computes in micrometres with floats and       *)
(* converts to database units (1 dbu = 1 nm) with um().  Here a length in  *)
(* micrometres is an integer number of steps of 1/130 nm (0.16 um is       *)
(* 160 * SUB), so that every constant of the source, every half of one and *)
(* the unit resistor length 40/13 um are exact, and um() is the rounding   *)
(* division by SUB.  Box coordinates, rule thresholds after conversion and *)
(* marker coordinates are in dbu.                                          *)
(***************************************************************************)
EXTENDS Integers, Sequences, FiniteSets, TLC

\* steps per 0.001 um: the "0.001" of um() and the dbu of new_layout()
SUB == 130

---------------------------------------------------------------------------
(* sg13g2_layers.py: layer numbers and design rules                        *)

L_ACTIV     == <<1, 0>>
L_GATPOLY   == <<5, 0>>
L_CONT      == <<6, 0>>
L_NSD       == <<7, 0>>
L_METAL1    == <<8, 0>>
L_METAL2    == <<10, 0>>
L_PSD       == <<14, 0>>
L_VIA1      == <<19, 0>>
L_SALBLOCK  == <<28, 0>>
L_METAL3    == <<30, 0>>
L_NWELL     == <<31, 0>>
L_CMIM      == <<36, 0>>
L_METAL5    == <<67, 0>>
L_TOPMETAL1 == <<126, 0>>

CONT_SIZE        == 160 * SUB
CONT_ENC_GATPOLY == 80 * SUB
CONT_ENC_M1      == 40 * SUB
SAL_ENC_GATPOLY  == 200 * SUB
SAL_SPACE_CONT   == 200 * SUB

\* int(round(v / unit)): v and unit are doubles and so is the quotient.  A
\* length that is not an odd multiple of half a unit goes to the nearest
\* integer.  At an odd multiple of half a unit (a tie) the double quotient
\* is k + 1/2 only when the rounding errors of v, of unit and of the division
\* cancel; otherwise it lies just below or just above and round() gives k or
\* k + 1 (0.0215 / 0.001 = 21.499999999999996 gives 21, 0.0005 / 0.001 = 0.5
\* gives 0, 0.0015 / 0.001 = 1.5 gives 2).  The exact lengths of this module
\* do not carry those errors: at a tie the result is k or k + 1 as `up` says,
\* and the step that rounds takes either.  Every call of um() rounds a
\* double of its own: two coordinates of the same exact length can be
\* different doubles (0.9005 and 0.5805 + 0.32) and land on different sides
\* of the tie, so `up` is chosen per coordinate of each rect() call, never
\* per length.
IsTie(v, unit) == 2 * (v % unit) = unit

RoundQuotient(v, unit, up) ==
    LET q == v \div unit
        r == v % unit
    IN  IF 2 * r < unit THEN q
        ELSE IF 2 * r > unit THEN q + 1
        ELSE IF up THEN q + 1 ELSE q

\* um(val): micrometres to database units
um(val, up) == RoundQuotient(val, SUB, up)

\* um(val) of a length that is not a tie
OffTie(val) == um(val, FALSE)

Min2(a, b) == IF a <= b THEN a ELSE b
Max2(a, b) == IF a >= b THEN a ELSE b

\* pya.Box(l, b, r, t): the constructor swaps coordinates given in the wrong
\* order, so a box never has right < left or top < bottom.
Box(l, b, r, t) ==
    [x1 |-> Min2(l, r), y1 |-> Min2(b, t), x2 |-> Max2(l, r), y2 |-> Max2(b, t)]

\* rect(x1, y1, x2, y2): a pya.Box from micrometre coordinates; ups is the
\* set of the argument positions (1..4) whose coordinate is a tie and goes up
rect(x1, y1, x2, y2, ups) ==
    Box(um(x1, 1 \in ups), um(y1, 2 \in ups), um(x2, 3 \in ups), um(y2, 4 \in ups))

\* cell.shapes(layout.layer(*L)).insert(box): one entry of the cell's shape list
Shape(L, b) == [layer |-> L, box |-> b]

---------------------------------------------------------------------------
(* gen_r2r_dac.py: design parameters and the horizontal resistor builder   *)

RHIGH_SHEET_R == 1300
R_TARGET      == 2000
R_WIDTH       == 2000 * SUB
\* R_TARGET / RHIGH_SHEET_R * R_WIDTH (40/13 um, exact in steps)
R_LENGTH      == (R_TARGET * R_WIDTH) \div RHIGH_SHEET_R
PAD_W         == CONT_SIZE + 2 * CONT_ENC_GATPOLY
\* enc = 0.1 of draw_resistor_h (pSD implant margin)
PSD_ENC       == 100 * SUB

\* rect(...) as the argument of an insert: the layer and the four
\* micrometre coordinates of the call, before um()
Raw(L, x1, y1, x2, y2) ==
    [layer |-> L, l |-> x1, b |-> y1, r |-> x2, t |-> y2]

\* the four arguments of a rect() call, in order
Coords(q) == <<q.l, q.b, q.r, q.t>>

\* the arguments of the rect() calls qs that are ties: call k, position c
Ties(qs) ==
    {kc \in (1..Len(qs)) \X (1..4) : IsTie(Coords(qs[kc[1]])[kc[2]], SUB)}

\* the four ints rect() hands to pya.Box, before pya.Box orders them; up is
\* the set of the positions that go up at a tie
Ints(q, up) ==
    [layer |-> q.layer, l |-> um(q.l, 1 \in up), b |-> um(q.b, 2 \in up),
     r |-> um(q.r, 3 \in up), t |-> um(q.t, 4 \in up)]

\* the ints of the calls qs, in order; ups is a subset of Ties(qs)
IntsOf(qs, ups) ==
    [k \in 1..Len(qs) |-> Ints(qs[k], {c \in 1..4 : <<k, c>> \in ups})]

\* the shape the insert leaves in the cell
ShapeOf(q) == Shape(q.layer, Box(q.l, q.b, q.r, q.t))

ShapesOf(qs) == [k \in 1..Len(qs) |-> ShapeOf(qs[k])]

\* What draw_resistor_h does with (x, y, length, width): the seven
\* rectangles it inserts, in order.  There is no check of length or width
\* before the insertions and no raise.
draw_resistor_h_rects(x, y, length, width) ==
    LET pad     == PAD_W
        total_l == pad + SAL_SPACE_CONT + length + SAL_SPACE_CONT + pad
        sal_x1  == x + pad + SAL_SPACE_CONT - SAL_ENC_GATPOLY
        sal_x2  == x + pad + SAL_SPACE_CONT + length + SAL_ENC_GATPOLY
        cx_l    == x + pad \div 2 - CONT_SIZE \div 2
        cy      == y + width \div 2 - CONT_SIZE \div 2
        cx_r    == x + total_l - pad \div 2 - CONT_SIZE \div 2
    IN  << Raw(L_GATPOLY, x, y, x + total_l, y + width),
           Raw(L_PSD, x - PSD_ENC, y - PSD_ENC,
                      x + total_l + PSD_ENC, y + width + PSD_ENC),
           Raw(L_SALBLOCK, sal_x1, y - SAL_ENC_GATPOLY,
                           sal_x2, y + width + SAL_ENC_GATPOLY),
           Raw(L_CONT, cx_l, cy, cx_l + CONT_SIZE, cy + CONT_SIZE),
           Raw(L_METAL1, cx_l - CONT_ENC_M1, cy - CONT_ENC_M1,
                         cx_l + CONT_SIZE + CONT_ENC_M1,
                         cy + CONT_SIZE + CONT_ENC_M1),
           Raw(L_CONT, cx_r, cy, cx_r + CONT_SIZE, cy + CONT_SIZE),
           Raw(L_METAL1, cx_r - CONT_ENC_M1, cy - CONT_ENC_M1,
                         cx_r + CONT_SIZE + CONT_ENC_M1,
                         cy + CONT_SIZE + CONT_ENC_M1) >>

\* the shapes draw_resistor_h leaves in the cell
draw_resistor_h_shapes(x, y, length, width, ups) ==
    ShapesOf(IntsOf(draw_resistor_h_rects(x, y, length, width), ups))

draw_resistor_h_total(length) ==
    PAD_W + SAL_SPACE_CONT + length + SAL_SPACE_CONT + PAD_W

\* lc, rc of draw_resistor_h: the centres of the two end contacts
draw_resistor_h_lc(x, y, width) == <<x + PAD_W \div 2, y + width \div 2>>
draw_resistor_h_rc(x, y, length, width) ==
    <<x + draw_resistor_h_total(length) - PAD_W \div 2, y + width \div 2>>

\* draw_resistor_v(cell, layout, x, y, length, width): the body runs in y
draw_resistor_v_rects(x, y, length, width) ==
    LET pad     == PAD_W
        total_h == pad + SAL_SPACE_CONT + length + SAL_SPACE_CONT + pad
        sal_y1  == y + pad + SAL_SPACE_CONT - SAL_ENC_GATPOLY
        sal_y2  == y + pad + SAL_SPACE_CONT + length + SAL_ENC_GATPOLY
        cx      == x + width \div 2 - CONT_SIZE \div 2
        cy_b    == y + pad \div 2 - CONT_SIZE \div 2
        cy_t    == y + total_h - pad \div 2 - CONT_SIZE \div 2
    IN  << Raw(L_GATPOLY, x, y, x + width, y + total_h),
           Raw(L_PSD, x - PSD_ENC, y - PSD_ENC,
                      x + width + PSD_ENC, y + total_h + PSD_ENC),
           Raw(L_SALBLOCK, x - SAL_ENC_GATPOLY, sal_y1,
                           x + width + SAL_ENC_GATPOLY, sal_y2),
           Raw(L_CONT, cx, cy_b, cx + CONT_SIZE, cy_b + CONT_SIZE),
           Raw(L_METAL1, cx - CONT_ENC_M1, cy_b - CONT_ENC_M1,
                         cx + CONT_SIZE + CONT_ENC_M1,
                         cy_b + CONT_SIZE + CONT_ENC_M1),
           Raw(L_CONT, cx, cy_t, cx + CONT_SIZE, cy_t + CONT_SIZE),
           Raw(L_METAL1, cx - CONT_ENC_M1, cy_t - CONT_ENC_M1,
                         cx + CONT_SIZE + CONT_ENC_M1,
                         cy_t + CONT_SIZE + CONT_ENC_M1) >>

\* bc, tc of draw_resistor_v
draw_resistor_v_bc(x, y, width) == <<x + width \div 2, y + PAD_W \div 2>>
draw_resistor_v_tc(x, y, length, width) ==
    <<x + width \div 2, y + draw_resistor_h_total(length) - PAD_W \div 2>>

---------------------------------------------------------------------------
(* Transistor, via and bias-mirror builders                                *)

CONT_ENC_ACTIV  == 80 * SUB
M1_WIDTH        == 160 * SUB
M2_WIDTH        == 200 * SUB
VIA1_SIZE       == 190 * SUB
VIA1_ENC_M1     == 10 * SUB
VIA1_ENC_M2     == 5 * SUB
VIA2_SIZE       == 190 * SUB
VIA2_ENC_M2     == 5 * SUB
VIA2_ENC_M3     == 5 * SUB
L_VIA2          == <<29, 0>>
GATPOLY_WIDTH   == 130 * SUB
GATPOLY_EXT     == 180 * SUB
ACTIV_WIDTH     == 150 * SUB
NWELL_ENC_ACTIV == 310 * SUB
NMOS_W          == 2000 * SUB
NMOS_L          == 130 * SUB
BIAS_W          == 2000 * SUB
BIAS_L          == 1000 * SUB
\* the 0.1 um implant margin of the transistor builders
IMPLANT_ENC     == 100 * SUB

\* sd_ext of the transistor builders
SD_EXT == CONT_SIZE + 2 * CONT_ENC_ACTIV

\* The seven rectangles draw_nmos inserts for (x, y, w, l), in order.  The
\* function is the same in gen_r2r_dac.py, gen_bias_dac.py and gen_svf.py up
\* to the gate point it returns; w and l are used as given, without a check.
draw_nmos_rects(x, y, w, l) ==
    LET sd_ext  == SD_EXT
        act_len == sd_ext + l + sd_ext
        gp_x1   == x + sd_ext
        s_cx    == x + sd_ext \div 2 - CONT_SIZE \div 2
        s_cy    == y + w \div 2 - CONT_SIZE \div 2
        d_cx    == gp_x1 + l + (sd_ext - CONT_SIZE) \div 2
    IN  << Raw(L_ACTIV, x, y, x + act_len, y + w),
           Raw(L_NSD, x - IMPLANT_ENC, y - IMPLANT_ENC,
                      x + act_len + IMPLANT_ENC, y + w + IMPLANT_ENC),
           Raw(L_GATPOLY, gp_x1, y - GATPOLY_EXT, gp_x1 + l, y + w + GATPOLY_EXT),
           Raw(L_CONT, s_cx, s_cy, s_cx + CONT_SIZE, s_cy + CONT_SIZE),
           Raw(L_METAL1, s_cx - CONT_ENC_M1, s_cy - CONT_ENC_M1,
                         s_cx + CONT_SIZE + CONT_ENC_M1,
                         s_cy + CONT_SIZE + CONT_ENC_M1),
           Raw(L_CONT, d_cx, s_cy, d_cx + CONT_SIZE, s_cy + CONT_SIZE),
           Raw(L_METAL1, d_cx - CONT_ENC_M1, s_cy - CONT_ENC_M1,
                         d_cx + CONT_SIZE + CONT_ENC_M1,
                         s_cy + CONT_SIZE + CONT_ENC_M1) >>

\* the dict draw_nmos of the ladder generators returns: gate below the device
draw_nmos_pins(x, y, w, l) ==
    [gate   |-> <<x + SD_EXT + l \div 2, y - GATPOLY_EXT>>,
     source |-> <<x + SD_EXT \div 2, y + w \div 2>>,
     drain  |-> <<x + SD_EXT + l + SD_EXT \div 2, y + w \div 2>>,
     width  |-> SD_EXT + l + SD_EXT]

\* the dict draw_nmos of gen_svf.py returns: gate above the device
svf_draw_nmos_pins(x, y, w, l) ==
    [gate   |-> <<x + SD_EXT + l \div 2, y + w + GATPOLY_EXT>>,
     source |-> <<x + SD_EXT \div 2, y + w \div 2>>,
     drain  |-> <<x + SD_EXT + l + SD_EXT \div 2, y + w \div 2>>,
     width  |-> SD_EXT + l + SD_EXT]

\* draw_pmos_transistor(cell, layout, x, y, w, l, draw_nwell): the NWell
\* rectangle first when asked for, then the device as for the NMOS with pSD
draw_pmos_transistor_rects(x, y, w, l, draw_nwell) ==
    LET sd_ext  == SD_EXT
        act_len == sd_ext + l + sd_ext
        gp_x1   == x + sd_ext
        s_cx    == x + sd_ext \div 2 - CONT_SIZE \div 2
        s_cy    == y + w \div 2 - CONT_SIZE \div 2
        d_cx    == gp_x1 + l + (sd_ext - CONT_SIZE) \div 2
        nw_enc  == NWELL_ENC_ACTIV
    IN  (IF draw_nwell
         THEN << Raw(L_NWELL, x - nw_enc, y - nw_enc,
                              x + act_len + nw_enc, y + w + nw_enc) >>
         ELSE << >>) \o
        << Raw(L_ACTIV, x, y, x + act_len, y + w),
           Raw(L_PSD, x - IMPLANT_ENC, y - IMPLANT_ENC,
                      x + act_len + IMPLANT_ENC, y + w + IMPLANT_ENC),
           Raw(L_GATPOLY, gp_x1, y - GATPOLY_EXT, gp_x1 + l, y + w + GATPOLY_EXT),
           Raw(L_CONT, s_cx, s_cy, s_cx + CONT_SIZE, s_cy + CONT_SIZE),
           Raw(L_METAL1, s_cx - CONT_ENC_M1, s_cy - CONT_ENC_M1,
                         s_cx + CONT_SIZE + CONT_ENC_M1,
                         s_cy + CONT_SIZE + CONT_ENC_M1),
           Raw(L_CONT, d_cx, s_cy, d_cx + CONT_SIZE, s_cy + CONT_SIZE),
           Raw(L_METAL1, d_cx - CONT_ENC_M1, s_cy - CONT_ENC_M1,
                         d_cx + CONT_SIZE + CONT_ENC_M1,
                         s_cy + CONT_SIZE + CONT_ENC_M1) >>

\* draw_via1(cell, layout, x, y): the cut, then the Metal1 and Metal2 pads
draw_via1_rects(x, y) ==
    LET hs == VIA1_SIZE \div 2
        e1 == VIA1_ENC_M1 + hs
        e2 == VIA1_ENC_M2 + hs
    IN  << Raw(L_VIA1, x - hs, y - hs, x + hs, y + hs),
           Raw(L_METAL1, x - e1, y - e1, x + e1, y + e1),
           Raw(L_METAL2, x - e2, y - e2, x + e2, y + e2) >>

\* draw_via2(cell, layout, x, y) of gen_bias_dac.py: the cut, then the Metal2
\* and Metal3 pads
draw_via2_rects(x, y) ==
    LET hs == VIA2_SIZE \div 2
        e2 == VIA2_ENC_M2 + hs
        e3 == VIA2_ENC_M3 + hs
    IN  << Raw(L_VIA2, x - hs, y - hs, x + hs, y + hs),
           Raw(L_METAL2, x - e2, y - e2, x + e2, y + e2),
           Raw(L_METAL3, x - e3, y - e3, x + e3, y + e3) >>

\* draw_bias(cell, layout, x, y) of gen_svf.py: two NMOS, then three Metal1
\* wires.  The second wire is asked for from the drain's x to the gate's x,
\* and the drain lies right of the gate.
draw_bias_rects(x, y) ==
    LET wire_w  == M1_WIDTH
        act_len == SD_EXT + BIAS_L + SD_EXT
        gap     == 1000 * SUB
        m_ref   == svf_draw_nmos_pins(x, y, BIAS_W, BIAS_L)
        m_mir   == svf_draw_nmos_pins(x + act_len + gap, y, BIAS_W, BIAS_L)
    IN  draw_nmos_rects(x, y, BIAS_W, BIAS_L) \o
        draw_nmos_rects(x + act_len + gap, y, BIAS_W, BIAS_L) \o
        << Raw(L_METAL1, m_ref.gate[1] - wire_w \div 2,
                         Min2(m_ref.gate[2], m_ref.drain[2]) - wire_w \div 2,
                         m_ref.gate[1] + wire_w \div 2,
                         Max2(m_ref.gate[2], m_ref.drain[2]) + wire_w \div 2),
           Raw(L_METAL1, m_ref.drain[1] - wire_w \div 2, m_ref.gate[2] - wire_w \div 2,
                         m_ref.gate[1] + wire_w \div 2, m_ref.gate[2] + wire_w \div 2),
           Raw(L_METAL1, m_ref.gate[1] - wire_w \div 2, m_ref.gate[2] - wire_w \div 2,
                         m_mir.gate[1] + wire_w \div 2, m_ref.gate[2] + wire_w \div 2) >>

\* total_w of draw_bias
draw_bias_total_w == 2 * (SD_EXT + BIAS_L + SD_EXT) + 1000 * SUB

\* the dict draw_bias returns (lines 321-328)
draw_bias_pins(x, y) ==
    LET m_ref == svf_draw_nmos_pins(x, y, BIAS_W, BIAS_L)
        m_mir == svf_draw_nmos_pins(x + SD_EXT + BIAS_L + SD_EXT + 1000 * SUB, y,
                                    BIAS_W, BIAS_L)
    IN  [ref_drain  |-> m_ref.drain,
         mir_drain  |-> m_mir.drain,
         ref_gate   |-> m_ref.gate,
         ref_source |-> m_ref.source,
         mir_source |-> m_mir.source,
         total_w    |-> draw_bias_total_w]

MIM_ENC_M5 == 600 * SUB
MIM_SPACE  == 600 * SUB

\* draw_mim_cap(cell, layout, x, y, w, h) of gen_sc_svf.py: the Cmim
\* rectangle, then the Metal5 plate around it
draw_mim_cap_rects(x, y, w, h) ==
    LET enc == MIM_ENC_M5
    IN  << Raw(L_CMIM, x, y, x + w, y + h),
           Raw(L_METAL5, x - enc, y - enc, x + w + enc, y + h + enc) >>

\* draw_mim_cap(cell, layout, x, y, w, h) of gen_svf.py: a TopMetal1
\* rectangle 0.1 um around the Cmim rectangle as well
svf_draw_mim_cap_rects(x, y, w, h) ==
    draw_mim_cap_rects(x, y, w, h) \o
    << Raw(L_TOPMETAL1, x - 100 * SUB, y - 100 * SUB,
                        x + w + 100 * SUB, y + h + 100 * SUB) >>

\* bot_center, top_center of draw_mim_cap
draw_mim_cap_bot(x, y, w, h) == <<x + w \div 2, y - MIM_ENC_M5>>
draw_mim_cap_top(x, y, w, h) == <<x + w \div 2, y + h + 100 * SUB>>
---------------------------------------------------------------------------
(* Blocks of gen_sc_svf.py and gen_svf.py: amplifier, transmission gate,   *)
(* clock generator, multiplexer.  Each is the sequence of rectangles the   *)
(* function inserts, in order, and the dict of points it returns.          *)

OTA_DP_W   == 4000 * SUB
OTA_DP_L   == 500 * SUB
OTA_LD_W   == 2000 * SUB
OTA_LD_L   == 500 * SUB
OTA_TAIL_W == 2000 * SUB
OTA_TAIL_L == 500 * SUB
SW_N_W     == 2000 * SUB
SW_N_L     == 130 * SUB
SW_P_W     == 4000 * SUB
SW_P_L     == 130 * SUB
MUX_W      == 2000 * SUB
MUX_L      == 130 * SUB
NOL_N_W    == 1000 * SUB
NOL_N_L    == 130 * SUB
NOL_P_W    == 2000 * SUB
NOL_P_L    == 130 * SUB

\* the literals of draw_ota that differ between the two generators: dp_gap,
\* dp_y - (y + OTA_TAIL_W), ld_y - (dp_y + OTA_DP_W)
SC_OTA  == [dp_gap |-> 1300 * SUB, dp_dy |-> 1500 * SUB, ld_dy |-> 2000 * SUB]
SVF_OTA == [dp_gap |-> 1500 * SUB, dp_dy |-> 2000 * SUB, ld_dy |-> 2500 * SUB]

\* the dict draw_pmos returns: gate below the device
draw_pmos_pins(x, y, w, l) ==
    [gate   |-> <<x + SD_EXT + l \div 2, y - GATPOLY_EXT>>,
     source |-> <<x + SD_EXT \div 2, y + w \div 2>>,
     drain  |-> <<x + SD_EXT + l + SD_EXT \div 2, y + w \div 2>>,
     width  |-> SD_EXT + l + SD_EXT]

\* a Metal1 rectangle through the corners given
M1Wire(x1, y1, x2, y2) == Raw(L_METAL1, x1, y1, x2, y2)

\* a point joined to the VDD rail of a macro of height H: Metal1 up to
\* H - 2.5, a via1 there and a via2 at H - 1.0 (gen_sc_svf.py lines 515-519, gen_svf.py lines 422-426)
to_vdd_rects(p, H) ==
    << M1Wire(p[1] - M1_WIDTH \div 2, p[2] - M1_WIDTH \div 2,
              p[1] + M1_WIDTH \div 2, H - 2500 * SUB) >> \o
    draw_via1_rects(p[1], H - 2500 * SUB) \o
    draw_via2_rects(p[1], H - 1000 * SUB)

\* a point joined to the VSS rail: a via1 on it, Metal2 down to 2.5 and a
\* via2 at 1.0 (gen_sc_svf.py lines 523-527, gen_svf.py
\* lines 430-434)
to_vss_rects(p) ==
    draw_via1_rects(p[1], p[2]) \o
    << Raw(L_METAL2, p[1] - M2_WIDTH \div 2, 2500 * SUB,
                     p[1] + M2_WIDTH \div 2, p[2]) >> \o
    draw_via2_rects(p[1], 1000 * SUB)

\* the five transistors of draw_ota(cell, layout, x, y): origin and pins
draw_ota_devices(P, x, y) ==
    LET dp_act_len   == SD_EXT + OTA_DP_L + SD_EXT
        tail_act_len == SD_EXT + OTA_TAIL_L + SD_EXT
        tail_x == x + (dp_act_len * 2 + P.dp_gap - tail_act_len) \div 2
        dp_y   == y + OTA_TAIL_W + P.dp_dy
        ld_y   == dp_y + OTA_DP_W + P.ld_dy
        x2     == x + dp_act_len + P.dp_gap
    IN  [tail_x |-> tail_x, dp_y |-> dp_y, ld_y |-> ld_y, x2 |-> x2,
         m5 |-> svf_draw_nmos_pins(tail_x, y, OTA_TAIL_W, OTA_TAIL_L),
         m1 |-> svf_draw_nmos_pins(x, dp_y, OTA_DP_W, OTA_DP_L),
         m2 |-> svf_draw_nmos_pins(x2, dp_y, OTA_DP_W, OTA_DP_L),
         m3 |-> draw_pmos_pins(x, ld_y, OTA_LD_W, OTA_LD_L),
         m4 |-> draw_pmos_pins(x2, ld_y, OTA_LD_W, OTA_LD_L)]

\* draw_ota(cell, layout, x, y): tail, differential pair, the shared NWell,
\* the two loads without a well of their own, then seven Metal1 wires
draw_ota_rects(P, x, y) ==
    LET d      == draw_ota_devices(P, x, y)
        hw     == M1_WIDTH \div 2
        nw_enc == NWELL_ENC_ACTIV
        ld_act_len == SD_EXT + OTA_LD_L + SD_EXT
    IN  draw_nmos_rects(d.tail_x, y, OTA_TAIL_W, OTA_TAIL_L) \o
        draw_nmos_rects(x, d.dp_y, OTA_DP_W, OTA_DP_L) \o
        draw_nmos_rects(d.x2, d.dp_y, OTA_DP_W, OTA_DP_L) \o
        << Raw(L_NWELL, x - nw_enc, d.ld_y - nw_enc,
                        d.x2 + ld_act_len + nw_enc, d.ld_y + OTA_LD_W + nw_enc) >> \o
        draw_pmos_transistor_rects(x, d.ld_y, OTA_LD_W, OTA_LD_L, FALSE) \o
        draw_pmos_transistor_rects(d.x2, d.ld_y, OTA_LD_W, OTA_LD_L, FALSE) \o
        << M1Wire(d.m1.source[1] - hw, d.m5.drain[2] - hw,
                  d.m1.source[1] + hw, d.m1.source[2] + hw),
           M1Wire(d.m2.source[1] - hw, d.m5.drain[2] - hw,
                  d.m2.source[1] + hw, d.m2.source[2] + hw),
           M1Wire(d.m1.source[1] - hw, d.m5.drain[2] - hw,
                  d.m2.source[1] + hw, d.m5.drain[2] + hw),
           M1Wire(d.m1.drain[1] - hw, d.m1.drain[2] - hw,
                  d.m1.drain[1] + hw, d.m3.drain[2] + hw),
           M1Wire(d.m2.drain[1] - hw, d.m2.drain[2] - hw,
                  d.m2.drain[1] + hw, d.m4.drain[2] + hw),
           M1Wire(d.m3.gate[1] - hw, d.m3.gate[2] - hw,
                  d.m4.gate[1] + hw, d.m3.gate[2] + hw),
           M1Wire(d.m3.drain[1] - hw, d.m3.gate[2] - hw,
                  d.m3.drain[1] + hw, d.m3.drain[2] + hw) >>

\* the dict draw_ota returns
draw_ota_pins(P, x, y) ==
    LET d == draw_ota_devices(P, x, y)
        dp_y    == y + OTA_TAIL_W + P.dp_dy
        ld_y    == dp_y + OTA_DP_W + P.ld_dy
        total_w == (SD_EXT + OTA_DP_L + SD_EXT) * 2 + P.dp_gap
        total_h == (ld_y + OTA_LD_W) - y
    IN  [inp |-> d.m1.gate, inn |-> d.m2.gate, out |-> d.m4.drain,
         tail |-> d.m5.gate, vdd_l |-> d.m3.source, vdd_r |-> d.m4.source,
         vss |-> d.m5.source,
         bbox |-> <<x, y, x + total_w, y + total_h>>,
         total_w |-> total_w, total_h |-> total_h]

\* draw_cmos_switch(cell, layout, x, y): NMOS, PMOS in its own well above
\* it, and the two Metal1 wires joining sources and drains
draw_cmos_switch_rects(x, y) ==
    LET hw     == M1_WIDTH \div 2
        pmos_y == y + SW_N_W + 1500 * SUB
        mn     == svf_draw_nmos_pins(x, y, SW_N_W, SW_N_L)
        mp     == draw_pmos_pins(x, pmos_y, SW_P_W, SW_P_L)
    IN  draw_nmos_rects(x, y, SW_N_W, SW_N_L) \o
        draw_pmos_transistor_rects(x, pmos_y, SW_P_W, SW_P_L, TRUE) \o
        << M1Wire(mn.source[1] - hw, mn.source[2] - hw,
                  mn.source[1] + hw, mp.source[2] + hw),
           M1Wire(mn.drain[1] - hw, mn.drain[2] - hw,
                  mn.drain[1] + hw, mp.drain[2] + hw) >>

\* total_w of draw_cmos_switch
draw_cmos_switch_total_w == SD_EXT + SW_N_L + SD_EXT

\* the sequences of a sequence, one after another
RECURSIVE Flatten(_)
Flatten(seqs) == IF seqs = <<>> THEN <<>> ELSE seqs[1] \o Flatten(Tail(seqs))

\* the rectangles of devices at the origins of a sequence, one after another
RECURSIVE nmos_row(_, _, _)
nmos_row(origins, w, l) ==
    IF origins = <<>> THEN <<>>
    ELSE draw_nmos_rects(origins[1][1], origins[1][2], w, l)
             \o nmos_row(Tail(origins), w, l)

RECURSIVE pmos_row(_, _, _)
pmos_row(origins, w, l) ==
    IF origins = <<>> THEN <<>>
    ELSE draw_pmos_transistor_rects(origins[1][1], origins[1][2], w, l, FALSE)
             \o pmos_row(Tail(origins), w, l)

\* nmos_pitch of draw_nol_clock
nol_pitch == (SD_EXT + NOL_N_L + SD_EXT) + 1000 * SUB

\* the dicts of the four NMOS and four PMOS of draw_nol_clock
nol_nmos(x, y) ==
    [k \in 1..4 |-> svf_draw_nmos_pins(x + (k - 1) * nol_pitch, y, NOL_N_W, NOL_N_L)]
nol_pmos(x, y) ==
    [k \in 1..4 |-> draw_pmos_pins(x + (k - 1) * nol_pitch, y + NOL_N_W + 2000 * SUB,
                                   NOL_P_W, NOL_P_L)]

\* draw_nol_clock(cell, layout, x, y): four NMOS, the shared NWell, four
\* PMOS, then a drain-to-drain wire per pair
draw_nol_clock_rects(x, y) ==
    LET hw     == M1_WIDTH \div 2
        pmos_y == y + NOL_N_W + 2000 * SUB
        nw_enc == NWELL_ENC_ACTIV
        n      == nol_nmos(x, y)
        p      == nol_pmos(x, y)
    IN  nmos_row([k \in 1..4 |-> <<x + (k - 1) * nol_pitch, y>>], NOL_N_W, NOL_N_L) \o
        << Raw(L_NWELL, x - nw_enc, pmos_y - nw_enc,
                        x + 4 * nol_pitch + nw_enc, pmos_y + NOL_P_W + nw_enc) >> \o
        pmos_row([k \in 1..4 |-> <<x + (k - 1) * nol_pitch, pmos_y>>], NOL_P_W, NOL_P_L) \o
        [k \in 1..4 |-> M1Wire(n[k].drain[1] - hw, n[k].drain[2] - hw,
                               n[k].drain[1] + hw, p[k].drain[2] + hw)]

\* sw_pitch of draw_analog_mux
mux_pitch == MUX_W + 1500 * SUB

\* the dicts of the four pass gates of draw_analog_mux, bottom to top
mux_switches(x, y) ==
    [k \in 1..4 |-> svf_draw_nmos_pins(x, y + (k - 1) * mux_pitch, MUX_W, MUX_L)]

\* draw_analog_mux(cell, layout, x, y): four NMOS one above the other and
\* the Metal1 wire through their drains
draw_analog_mux_rects(x, y) ==
    LET hw    == M1_WIDTH \div 2
        sw    == mux_switches(x, y)
        out_x == sw[1].drain[1]
    IN  nmos_row([k \in 1..4 |-> <<x, y + (k - 1) * mux_pitch>>], MUX_W, MUX_L) \o
        << M1Wire(out_x - hw, sw[1].drain[2] - hw, out_x + hw, sw[4].drain[2] + hw) >>

---------------------------------------------------------------------------
(* Blocks of gen_sar_adc.py: comparator and logic block.                   *)
(* draw_nmos_transistor and draw_pmos_transistor insert what draw_nmos and *)
(* draw_pmos of the filter generators insert.                              *)

COMP_L == 130 * SUB
SAR_W  == 15000 * SUB
SAR_H  == 18000 * SUB
ROW_H  == 2500 * SUB
COL_W  == 1500 * SUB

\* draw_strongarm_comparator(cell, layout, x, y): input pair, tail, latch
\* loads, latch, reset devices; the PMOS each in a well of its own
draw_strongarm_comparator_rects(x, y) ==
    draw_nmos_rects(x, y, 2000 * SUB, 500 * SUB) \o
    draw_nmos_rects(x + 5000 * SUB, y, 2000 * SUB, 500 * SUB) \o
    draw_nmos_rects(x + 2000 * SUB, y - 4000 * SUB, 4000 * SUB, COMP_L) \o
    draw_pmos_transistor_rects(x, y + 5000 * SUB, 2000 * SUB, COMP_L, TRUE) \o
    draw_pmos_transistor_rects(x + 5000 * SUB, y + 5000 * SUB, 2000 * SUB, COMP_L, TRUE) \o
    draw_nmos_rects(x, y + 10000 * SUB, 1000 * SUB, COMP_L) \o
    draw_nmos_rects(x + 5000 * SUB, y + 10000 * SUB, 1000 * SUB, COMP_L) \o
    draw_pmos_transistor_rects(x + 1000 * SUB, y + 13000 * SUB, 1000 * SUB, COMP_L, TRUE) \o
    draw_pmos_transistor_rects(x + 6000 * SUB, y + 13000 * SUB, 1000 * SUB, COMP_L, TRUE)

\* int(a / b) of Python for b > 0: the quotient cut toward zero
IntQuot(a, b) == IF a >= 0 THEN a \div b ELSE -((-a) \div b)

\* row r (from 0) of draw_sar_logic_block: ncols devices, NMOS in even rows
\* and PMOS without wells in odd rows, the shared NWell of an odd row, and
\* the two Metal1 rails of the row
sar_logic_row(x, y, w, r) ==
    LET ry      == y + r * ROW_H
        ncols   == IntQuot(w, COL_W)
        nw_enc  == NWELL_ENC_ACTIV
        origins == [c \in 1..ncols |-> <<x + (c - 1) * COL_W, ry + 200 * SUB>>]
    IN  (IF r % 2 = 0
         THEN nmos_row(origins, 800 * SUB, COMP_L)
         ELSE pmos_row(origins, 800 * SUB, COMP_L) \o
              << Raw(L_NWELL, x - nw_enc, ry + 200 * SUB - nw_enc,
                              x + (ncols - 1) * COL_W + 770 * SUB + nw_enc,
                              ry + 200 * SUB + 800 * SUB + nw_enc) >>) \o
        << M1Wire(x, ry, x + w, ry + M1_WIDTH),
           M1Wire(x, ry + ROW_H - M1_WIDTH, x + w, ry + ROW_H) >>

\* draw_sar_logic_block(cell, layout, x, y, w, h): int(h / row_h) rows, then
\* the two Metal2 straps
draw_sar_logic_block_rects(x, y, w, h) ==
    Flatten([k \in 1..IntQuot(h, ROW_H) |-> sar_logic_row(x, y, w, k - 1)]) \o
    << Raw(L_METAL2, x, y, x + M2_WIDTH * 2, y + h),
       Raw(L_METAL2, x + w - M2_WIDTH * 2, y, x + w, y + h) >>

---------------------------------------------------------------------------
(* klayout.db regions, as run_drc.py uses them.  A region is a set of      *)
(* boxes standing for the union of their areas; all geometry the           *)
(* generators emit is boxes.  Merged polygons are the classes of boxes     *)
(* that touch or overlap.                                                  *)

\* pya.Region(top.begin_shapes_rec(li)): the boxes of the cell on layer L
Region(shapes, L) ==
    {shapes[k].box : k \in {j \in 1..Len(shapes) : shapes[j].layer = L}}

\* region.is_empty()
is_empty(S) == S = {}

XsOf(S) == {b.x1 : b \in S} \cup {b.x2 : b \in S}
YsOf(S) == {b.y1 : b \in S} \cup {b.y2 : b \in S}

\* The unit square with lower-left corner (x, y) lies in the area of S
Covered(S, x, y) ==
    \E b \in S : b.x1 <= x /\ x < b.x2 /\ b.y1 <= y /\ y < b.y2

\* Two boxes share at least a point (overlap, abut or kiss at a corner)
Touch(a, b) ==
    a.x1 <= b.x2 /\ b.x1 <= a.x2 /\ a.y1 <= b.y2 /\ b.y1 <= a.y2

\* The boxes of S merged into one polygon with the boxes of C
RECURSIVE Grow(_, _)
Grow(S, C) ==
    LET N == {b \in S : \E c \in C : Touch(b, c)}
    IN  IF N = C THEN C ELSE Grow(S, N)

\* The merged polygons of S, each as the set of its boxes
Polygons(S) ==
    LET A == {b \in S : b.x1 < b.x2 /\ b.y1 < b.y2}
    IN  {Grow(A, {b}) : b \in A}

\* Region.size() of a merged region: its number of polygons
RegionSize(S) == Cardinality(Polygons(S))

\* Boundary of the merged area on the grid of the boxes' coordinates:
\* kind "B" is a bottom edge (inside above), "T" a top edge, "L" a left
\* edge (inside to the right), "R" a right edge; pos is the edge's fixed
\* coordinate and lo..hi its extent along the other axis.
OnEdge(S, kind, pos, c) ==
    CASE kind = "B" -> Covered(S, c, pos) /\ ~Covered(S, c, pos - 1)
      [] kind = "T" -> ~Covered(S, c, pos) /\ Covered(S, c, pos - 1)
      [] kind = "L" -> Covered(S, pos, c) /\ ~Covered(S, pos - 1, c)
      [] kind = "R" -> ~Covered(S, pos, c) /\ Covered(S, pos - 1, c)

\* The boxes of S that reach the line at pos: only they cover a unit square
\* on either side of it
AtLine(S, kind, pos) ==
    IF kind \in {"B", "T"} THEN {b \in S : b.y1 <= pos /\ pos <= b.y2}
    ELSE {b \in S : b.x1 <= pos /\ pos <= b.x2}

\* The maximal edges on one line: an edge starts at a coordinate where the
\* boundary begins and ends at the next one where it stops; the boundary
\* begins and stops only at coordinates of the boxes that reach the line.
EdgesAt(S, kind, pos) ==
    LET A     == AtLine(S, kind, pos)
        along == IF kind \in {"B", "T"} THEN XsOf(A) ELSE YsOf(A)
        on    == {c \in along : OnEdge(A, kind, pos, c)}
        starts == {c \in on : ~OnEdge(A, kind, pos, c - 1)}
        EndOf(lo) ==
            CHOOSE h \in along \ on :
                /\ h > lo
                /\ \A c \in along \ on : c > lo => h <= c
    IN  {[kind |-> kind, pos |-> pos, lo |-> lo, hi |-> EndOf(lo)] : lo \in starts}

\* Maximal edges: collinear boundary pieces are one edge of the polygon.
Edges(S) ==
    UNION {UNION {EdgesAt(S, k, p) : p \in (IF k \in {"B", "T"} THEN YsOf(S) ELSE XsOf(S))}
               : k \in {"B", "T", "L", "R"}}

\* A box of S that covers the inside of edge e at its low end
EdgeBox(S, e) ==
    LET px == CASE e.kind = "B" -> e.lo [] e.kind = "T" -> e.lo
                [] e.kind = "L" -> e.pos [] e.kind = "R" -> e.pos - 1
        py == CASE e.kind = "B" -> e.pos [] e.kind = "T" -> e.pos - 1
                [] e.kind = "L" -> e.lo [] e.kind = "R" -> e.lo
    IN  CHOOSE b \in S : b.x1 <= px /\ px < b.x2 /\ b.y1 <= py /\ py < b.y2

SamePolygon(S, a, b) ==
    LET A == {x \in S : x.x1 < x.x2 /\ x.y1 < x.y2}
    IN  EdgeBox(A, b) \in Grow(A, {EdgeBox(A, a)})

\* Euclidean metric: parallel edges a and b, b on the far side of a at
\* distance h > 0, are closer than d when the nearest points of the two
\* segments are
Near(a, b, d) ==
    LET h == b.pos - a.pos
        g == Max2(0, Max2(b.lo - a.hi, a.lo - b.hi))
    IN  h > 0 /\ h < d /\ g < d /\ h * h + g * g < d * d

\* region.width_check(d): the edge pairs of one polygon that face each
\* other through the inside and are closer than d
width_check(S, d) ==
    LET E == Edges(S)
    IN  {p \in E \X E :
            /\ \/ p[1].kind = "B" /\ p[2].kind = "T"
               \/ p[1].kind = "L" /\ p[2].kind = "R"
            /\ Near(p[1], p[2], d)
            /\ SamePolygon(S, p[1], p[2])}

\* region.space_check(d): the edge pairs, of one polygon or of two, that
\* face each other through the outside and are closer than d
space_check(S, d) ==
    LET E == Edges(S)
    IN  {p \in E \X E :
            /\ \/ p[1].kind = "T" /\ p[2].kind = "B"
               \/ p[1].kind = "R" /\ p[2].kind = "L"
            /\ Near(p[1], p[2], d)}

\* inner & outer: the area common to both regions
RegionAnd(A, B) ==
    {Box(Max2(a.x1, b.x1), Max2(a.y1, b.y1), Min2(a.x2, b.x2), Min2(a.y2, b.y2)) :
        <<a, b>> \in {q \in A \X B :
            /\ Max2(q[1].x1, q[2].x1) < Min2(q[1].x2, q[2].x2)
            /\ Max2(q[1].y1, q[2].y1) < Min2(q[1].y2, q[2].y2)}}

\* region.sized(d): every box grown by d on all four sides
sized(S, d) == {Box(b.x1 - d, b.y1 - d, b.x2 + d, b.y2 + d) : b \in S}

\* A - B: the part of the area of A outside the area of B, cut along the
\* grid of both regions' coordinates
RegionMinus(A, B) ==
    LET xs == XsOf(A \cup B)
        ys == YsOf(A \cup B)
        \* the grid cells within box a of A that no box of B covers
        Cells(a) ==
            LET gx == {x \in xs : a.x1 <= x /\ x <= a.x2}
                gy == {y \in ys : a.y1 <= y /\ y <= a.y2}
                Ba == {b \in B : Touch(a, b)}
                NextX(x) == CHOOSE n \in gx : n > x /\ \A m \in gx : m > x => n <= m
                NextY(y) == CHOOSE n \in gy : n > y /\ \A m \in gy : m > y => n <= m
            IN  {Box(c[1], c[2], NextX(c[1]), NextY(c[2])) :
                    c \in {q \in gx \X gy : /\ q[1] < a.x2 /\ q[2] < a.y2
                                            /\ ~Covered(Ba, q[1], q[2])}}
    IN  UNION {Cells(a) : a \in {b \in A : b.x1 < b.x2 /\ b.y1 < b.y2}}
---------------------------------------------------------------------------
(* run_drc.py: the rule tables.  Thresholds are micrometres in steps        *)
(* (0.15 um = 150 * SUB), converted per rule by value_dbu.                 *)

Rule(n, d, L, t, v) ==
    [name |-> n, desc |-> d, layer |-> L, check_type |-> t, value |-> v]

RULES == <<
    Rule("Act.a", "Min Activ width",        L_ACTIV,     "width", 150 * SUB),
    Rule("Act.b", "Min Activ spacing",      L_ACTIV,     "space", 210 * SUB),
    Rule("Gat.a", "Min GatPoly width",      L_GATPOLY,   "width", 130 * SUB),
    Rule("Gat.b", "Min GatPoly spacing",    L_GATPOLY,   "space", 180 * SUB),
    Rule("Cnt.a", "Min Cont size (width)",  L_CONT,      "width", 160 * SUB),
    Rule("Cnt.b", "Min Cont spacing",       L_CONT,      "space", 180 * SUB),
    Rule("M1.a",  "Min Metal1 width",       L_METAL1,    "width", 160 * SUB),
    Rule("M1.b",  "Min Metal1 spacing",     L_METAL1,    "space", 180 * SUB),
    Rule("M2.a",  "Min Metal2 width",       L_METAL2,    "width", 200 * SUB),
    Rule("M2.b",  "Min Metal2 spacing",     L_METAL2,    "space", 210 * SUB),
    Rule("M3.a",  "Min Metal3 width",       L_METAL3,    "width", 200 * SUB),
    Rule("M3.b",  "Min Metal3 spacing",     L_METAL3,    "space", 210 * SUB),
    Rule("V1.a",  "Min Via1 size (width)",  L_VIA1,      "width", 190 * SUB),
    Rule("V1.b",  "Min Via1 spacing",       L_VIA1,      "space", 220 * SUB),
    Rule("Sal.a", "Min SalBlock width",     L_SALBLOCK,  "width", 500 * SUB),
    Rule("NW.a",  "Min NWell width",        L_NWELL,     "width", 620 * SUB),
    Rule("NW.b",  "Min NWell spacing",      L_NWELL,     "space", 620 * SUB),
    Rule("M5.a",  "Min Metal5 width",       L_METAL5,    "width", 200 * SUB),
    Rule("M5.b",  "Min Metal5 spacing",     L_METAL5,    "space", 210 * SUB),
    Rule("MIM.a", "Min Cmim size",          L_CMIM,      "width", 1140 * SUB),
    Rule("MIM.b", "Min Cmim spacing",       L_CMIM,      "space", 600 * SUB),
    Rule("TM1.a", "Min TopMetal1 width",    L_TOPMETAL1, "width", 200 * SUB),
    Rule("TM1.b", "Min TopMetal1 spacing",  L_TOPMETAL1, "space", 210 * SUB) >>

EncRule(n, d, Li, Lo, v) ==
    [name |-> n, desc |-> d, inner |-> Li, outer |-> Lo, min_enc |-> v]

ENC_RULES == <<
    EncRule("Cnt.c", "Min Activ enclosure of Cont",       L_CONT,  L_ACTIV,   70 * SUB),
    EncRule("Cnt.d", "Min GatPoly enclosure of Cont",     L_CONT,  L_GATPOLY, 70 * SUB),
    EncRule("V1.c",  "Min Metal1 enclosure of Via1",      L_VIA1,  L_METAL1,  10 * SUB),
    EncRule("M2.c",  "Min Metal2 enclosure of Via1",      L_VIA1,  L_METAL2,  5 * SUB),
    EncRule("NW.c",  "Min NWell enclosure of Activ(pSD)", L_ACTIV, L_NWELL,   310 * SUB),
    EncRule("MIM.c", "Min Metal5 enclosure of Cmim",      L_CMIM,  L_METAL5,  600 * SUB) >>

\* value_dbu = int(round(value / layout.dbu))
value_dbu(value, dbu, up) == RoundQuotient(value, dbu, up)

\* the outcomes of the rounding of value / dbu: one off a tie, two at a tie
TieOutcomes(value, dbu) == IF IsTie(value, dbu) THEN BOOLEAN ELSE {FALSE}

\* RuleSkipped without the emptiness test: every rule is evaluated
RuleSkipped_never(region) == FALSE

\* "if region.is_empty(): continue" of the width/spacing loop
RuleSkipped(region) == is_empty(region)

\* RuleMarkers that evaluates width rules only
RuleMarkers_widthOnly(region, check_type, d) ==
    IF check_type = "width" THEN width_check(region, d) ELSE {}

\* markers of a width or spacing rule: an empty region unless check_type
\* is "width" or "space"
RuleMarkers(region, check_type, d) ==
    IF check_type = "width" THEN width_check(region, d)
    ELSE IF check_type = "space" THEN space_check(region, d)
    ELSE {}

\* inner_in_outer without the intersection: all of the inner region
inner_in_outer_all(inner, outer) == inner

\* inner_in_outer = inner & outer
inner_in_outer(inner, outer) == RegionAnd(inner, outer)

\* EncSkipped without the second "continue" (the empty overlap)
EncSkipped_noOverlapTest(inner, outer) == is_empty(inner) \/ is_empty(outer)

\* EncSkipped with neither "continue"
EncSkipped_never(inner, outer) == FALSE

\* the two "continue" of the enclosure loop
EncSkipped(inner, outer) ==
    \/ is_empty(inner) \/ is_empty(outer)
    \/ is_empty(inner_in_outer(inner, outer))

\* violations = inner_in_outer.sized(enc_dbu) - outer, as merged polygons
EncViolations(inner, outer, enc_dbu) ==
    Polygons(RegionMinus(sized(inner_in_outer(inner, outer), enc_dbu), outer))

\* status = "PASS" if count == 0 else "FAIL"
StatusOf(count) == IF count = 0 THEN "PASS" ELSE "FAIL"

\* one entry of results: (rule_name, desc, count, markers)
Result(n, d, c, m) == [name |-> n, desc |-> d, count |-> c, markers |-> m]

\* one printed line of the report: a rule's line (name, count, PASS or
\* FAIL), the summary line, or the error line with the cell name asked for
Line(r, c, s) == [rule |-> r, count |-> c, status |-> s]

\* ExitCode that ignores the total
ExitCode_zero(errors) == 0

\* sys.exit(0 if errors == 0 else 1)
ExitCode(errors) == IF errors = 0 THEN 0 ELSE 1
---------------------------------------------------------------------------
(* Bounds and inputs of the model                                          *)

\* resistor builder calls per cell
MaxResistors == 1
\* further rectangles inserted per cell
MaxRects == 2
\* checker runs on one persisted layout
MaxRuns == 3
\* checker runs on one file written by a macro generator (MacroSpec)
MaxMacroRuns == 2

\* create_cell("r2r_dac_8bit")
CellName == "r2r_dac_8bit"

\* topcell arguments of run_drc: none given, the cell's name, a wrong name
TopcellArgs == {"", CellName, "nosuch"}

\* the cells of the layout files that come from elsewhere: none, and two
\* top cells, one of them with the name the generator gives its cell
OtherFiles == {{}, {CellName, "other"}}

\* lengths asked of the resistor builder: zero, negative, the unit resistor
ResLengths == {0, -100 * SUB, R_LENGTH}

\* Rectangles a driver may insert besides the resistor (dbu).  With the
\* resistor at the origin: 1 a Metal1 wire narrower than M1.a; 2 a contact
\* off every GatPoly and Activ shape but 3; 3 Activ enclosing contact 2 by
\* less than Cnt.c on one side; 4 Activ covering half of the resistor's left
\* contact; 5 a Via1 cut; 6 a Metal2 pad enclosing cut 5 by exactly M2.c;
\* 7 a GatPoly strip closer to the resistor body than Gat.b.
RectMenu == <<
    Shape(L_METAL1,  Box(0, 3000, 100, 4000)),
    Shape(L_CONT,    Box(1000, 5000, 1160, 5160)),
    Shape(L_ACTIV,   Box(950, 4900, 1260, 5260)),
    Shape(L_ACTIV,   Box(160, 800, 600, 1200)),
    Shape(L_VIA1,    Box(2000, 5000, 2190, 5190)),
    Shape(L_METAL2,  Box(1995, 4995, 2195, 5195)),
    Shape(L_GATPOLY, Box(0, 2100, 1000, 2230)) >>

---------------------------------------------------------------------------
(* State                                                                   *)

VARIABLES
    cell,          \* shapes inserted into the cell under construction, in order
    calls,         \* builder calls made: [res, rect]
    last,          \* the last builder call: [op, length, inserted, raised]
    gds,           \* the persisted layout file: [written, name, cells, dbu, shapes]
    pc,            \* "build", "idle", "rules", "enc", "summary", "returned", "exited"
    layout,        \* the layout run_drc read: [cells, layers, shapes, dbu]
    top,           \* name of the cell run_drc checks, "" while it has none
    i,             \* index of the rule the current loop is at
    evaluated,     \* names of the rules whose loop body has run, in order
    results,       \* results list of run_drc
    total_errors,  \* total_errors of run_drc
    out,           \* report lines printed by the current run
    exit_status,   \* exit status of the checker process, -1 while there is none
    raised,        \* how the current run ended abnormally, "none" otherwise
    runs,          \* checker runs started
    prev,          \* outcome of the last checker run in which run_drc returned
    drv            \* the macro driver being run: its position, loop state and logs

vars == <<cell, calls, last, gds, pc, layout, top, i, evaluated, results,
          total_errors, out, exit_status, raised, runs, prev, drv>>

buildVars == <<cell, calls, last, drv>>
drcVars == <<layout, top, i, evaluated, results, total_errors, out, exit_status,
             raised, runs, prev>>

NoLayout == [cells |-> {}, layers |-> {}, shapes |-> <<>>, texts |-> <<>>, dbu |-> 0]
NoRun == [returned |-> FALSE, results |-> <<>>, total_errors |-> 0,
          out |-> <<>>, exit_status |-> -1, run |-> 0]
\* no macro driver has been called
NoDriver == [name |-> "", pc |-> "none", ch |-> 0, i |-> 0, x_cursor |-> 0,
             ins |-> <<>>, res |-> <<>>, pin_rects |-> <<>>, labels |-> <<>>,
             y_cursor |-> 0, bit_areas |-> <<>>,
             error |-> "none"]

Init ==
    /\ cell = <<>>
    /\ calls = [res |-> 0, rect |-> 0]
    /\ last = [op |-> "none", length |-> 0, inserted |-> 0, raised |-> FALSE,
               args |-> <<>>, ret |-> <<>>]
    /\ gds = [written |-> FALSE, name |-> "", cells |-> {}, dbu |-> 0,
              shapes |-> <<>>, texts |-> <<>>]
    /\ pc = "build"
    /\ layout = NoLayout
    /\ top = ""
    /\ i = 0
    /\ evaluated = <<>>
    /\ results = <<>>
    /\ total_errors = 0
    /\ out = <<>>
    /\ exit_status = -1
    /\ raised = "none"
    /\ runs = 0
    /\ prev = NoRun
    /\ drv = NoDriver

---------------------------------------------------------------------------
(* Generator: building and persisting a cell                               *)

\* draw_resistor_h(cell, layout, x, y, length): inserts its rectangles and
\* returns; it has no failing path.
draw_resistor_h(x, y, length) ==
    /\ pc = "build"
    /\ drv.pc = "none"
    /\ calls.rect = 0
    /\ \E ups \in SUBSET Ties(draw_resistor_h_rects(x, y, length, R_WIDTH)) :
       LET new == draw_resistor_h_shapes(x, y, length, R_WIDTH, ups)
       IN  /\ cell' = cell \o new
           /\ last' = [op |-> "draw_resistor_h", length |-> length,
                       inserted |-> Len(new), raised |-> FALSE,
                       args |-> <<x, y>>,
                       ret |-> << draw_resistor_h_lc(x, y, R_WIDTH),
                                  draw_resistor_h_rc(x, y, length, R_WIDTH) >>]
    /\ calls' = [calls EXCEPT !.res = @ + 1]
    /\ UNCHANGED <<gds, pc, drv>>
    /\ UNCHANGED drcVars

\* cell.shapes(li).insert(box) by a driver: entry k of RectMenu, entries
\* being inserted in the order of the menu
insert_rect(k) ==
    /\ pc = "build"
    /\ calls.rect < MaxRects
    /\ \A j \in k..Len(RectMenu) : \A n \in 1..Len(cell) : cell[n] # RectMenu[j]
    /\ cell' = Append(cell, RectMenu[k])
    /\ last' = [op |-> "insert", length |-> 0, inserted |-> 1, raised |-> FALSE,
                args |-> <<k>>, ret |-> <<>>]
    /\ calls' = [calls EXCEPT !.rect = @ + 1]
    /\ UNCHANGED <<gds, pc, drv>>
    /\ UNCHANGED drcVars

\* layout.create_cell(...) of the build function that made the cell: both
\* filter generators create "svf_2nd"; a cell put together from builder
\* calls alone is CellName
CreatedCell ==
    IF drv.name = "" THEN CellName
    ELSE IF drv.name = "svf_2nd (gm-C)" THEN "svf_2nd"
    ELSE drv.name

\* the text objects of the cell: those the calls of add_pin_label inserted
CellTexts ==
    [k \in 1..Len(drv.labels) |->
        [layer |-> drv.labels[k].layer, text |-> drv.labels[k].text,
         at |-> drv.labels[k].at]]

\* a write that is reached whether or not the build function has returned
write_after_raise ==
    /\ pc = "build"
    /\ gds' = [written |-> TRUE, name |-> CreatedCell, cells |-> {CreatedCell},
               dbu |-> SUB, shapes |-> cell, texts |-> CellTexts]
    /\ pc' = "idle"
    /\ UNCHANGED buildVars
    /\ UNCHANGED drcVars

\* layout.write(outpath) at the end of the generator script, and after each
\* build function in gen_all.py: the statement that follows the call of the
\* build function, reached only when that call returns.  The file holds the
\* one cell the build function created, under its name, with its shapes
\* and texts.
write ==
    /\ pc = "build"
    /\ drv.pc \in {"none", "returned"}
    /\ gds' = [written |-> TRUE, name |-> CreatedCell, cells |-> {CreatedCell},
               dbu |-> SUB, shapes |-> cell, texts |-> CellTexts]
    /\ pc' = "idle"
    /\ UNCHANGED buildVars
    /\ UNCHANGED drcVars

\* A layout file that no generator of the repository wrote is handed to
\* run_drc.py as its gds_file argument: a file that holds no cell, or one
\* that holds the cells named, each a top cell and none with a shape.
other_file(names) ==
    /\ pc = "build"
    /\ drv.pc = "none"
    /\ cell = <<>>
    /\ gds' = [written |-> TRUE, name |-> "", cells |-> names, dbu |-> SUB,
               shapes |-> <<>>, texts |-> <<>>]
    /\ pc' = "idle"
    /\ UNCHANGED buildVars
    /\ UNCHANGED drcVars
---------------------------------------------------------------------------
(* Checker: run_drc(gds_path, topcell) under __main__                      *)

\* run_drc has returned (results, total_errors) in the current run
Returned == pc = "returned" \/ (pc = "exited" /\ raised = "none" /\ runs > 0)

\* the process ended at the usage message of __main__, lines 172-174:
\* run_drc was not called
UsageExit == raised = "SystemExit" /\ out = <<Line("Usage", 0, "<gds_file> [top_cell]")>>

\* what the run that just ended has given: (results, total_errors), the
\* report and the exit status, and which run it was
Outcome ==
    [returned |-> Returned, results |-> results, total_errors |-> total_errors,
     out |-> out, exit_status |-> exit_status, run |-> runs]

\* what a run that starts keeps for comparison: the outcome of the run
\* that just ended when run_drc returned in it, else that of the last run
\* in which it did
Kept == IF Returned THEN Outcome ELSE prev

\* layout = pya.Layout(); layout.read(gds_path): the file's cells, the
\* layers that hold shapes in it, and its shapes
ReadLayout(file) ==
    [cells  |-> file.cells,
     layers |-> {file.shapes[k].layer : k \in 1..Len(file.shapes)}
                   \cup {file.texts[k].layer : k \in 1..Len(file.texts)},
     shapes |-> file.shapes,
     texts  |-> file.texts,
     dbu    |-> file.dbu]

\* None of Python
None == ""

\* layout.top_cell(): the top cell of a layout that has one; None when the
\* layout has no cell; an exception when it has several top cells
top_cell(lay) ==
    IF lay.cells = {} THEN [raises |-> FALSE, cell |-> None]
    ELSE IF \E c \in lay.cells : lay.cells = {c}
         THEN [raises |-> FALSE, cell |-> CHOOSE c \in lay.cells : TRUE]
         ELSE [raises |-> TRUE, cell |-> None]

\* lines 73-79 find a cell to check: the cell named, or without a name the
\* one top cell of the layout
CellFound(lay, topcell) ==
    IF topcell # "" THEN topcell \in lay.cells
    ELSE ~top_cell(lay).raises /\ top_cell(lay).cell # None

\* the checker can be started: no run is under way, no build function is
\* running, and the bound on the runs leaves room
CanStart ==
    /\ \/ pc \in {"idle", "exited"}
       \/ pc = "build" /\ drv.pc \in {"none", "raised"}
    /\ runs < MaxRuns

\* LayoutLayer that empties the layer it looks up (clear_layer)
LayoutLayer_clears(lay, L) ==
    [lay EXCEPT !.layers = @ \cup {L},
                !.shapes = SelectSeq(@, LAMBDA sh : sh.layer # L)]

\* layout.layer(*layer_def): the layer's index, the layer being added to
\* the layout when the layout does not have it
LayoutLayer(lay, L) == [lay EXCEPT !.layers = @ \cup {L}]

\* lines 70-71 on a path that holds no file: layout.read(gds_path) raises
\* and the exception ends the process with status 1.  No generator has
\* written the file; the run may be the first or follow an earlier one.
drc_read_fails ==
    /\ CanStart
    /\ ~gds.written
    /\ runs' = runs + 1
    /\ prev' = Kept
    /\ layout' = NoLayout
    /\ top' = ""
    /\ results' = <<>>
    /\ total_errors' = 0
    /\ evaluated' = <<>>
    /\ out' = <<>>
    /\ raised' = "RuntimeError"
    /\ exit_status' = 1
    /\ i' = 0
    /\ pc' = "exited"
    /\ UNCHANGED <<gds, cell, calls, last, drv>>

\* lines 70-79 without a cell name on a layout with several top cells:
\* layout.top_cell() raises and the exception ends the process
drc_several_top_cells ==
    /\ CanStart
    /\ gds.written
    /\ top_cell(ReadLayout(gds)).raises
    /\ runs' = runs + 1
    /\ prev' = Kept
    /\ layout' = ReadLayout(gds)
    /\ top' = ""
    /\ results' = <<>>
    /\ total_errors' = 0
    /\ evaluated' = <<>>
    /\ out' = <<>>
    /\ raised' = "RuntimeError"
    /\ exit_status' = 1
    /\ i' = 0
    /\ pc' = "exited"
    /\ UNCHANGED <<gds, cell, calls, last, drv>>

\* lines 70-82 without a cell name on a layout with no cell:
\* layout.top_cell() returns None and top.name of line 82 raises
drc_no_top_cell ==
    /\ CanStart
    /\ gds.written
    /\ ~top_cell(ReadLayout(gds)).raises
    /\ top_cell(ReadLayout(gds)).cell = None
    /\ runs' = runs + 1
    /\ prev' = Kept
    /\ layout' = ReadLayout(gds)
    /\ top' = ""
    /\ results' = <<>>
    /\ total_errors' = 0
    /\ evaluated' = <<>>
    /\ out' = <<>>
    /\ raised' = "AttributeError"
    /\ exit_status' = 1
    /\ i' = 0
    /\ pc' = "exited"
    /\ UNCHANGED <<gds, cell, calls, last, drv>>

\* lines 70-91 with the cell found: read, look the cell up, print the
\* header, results = [], total_errors = 0
drc_start(topcell) ==
    /\ CanStart
    /\ gds.written
    /\ CellFound(ReadLayout(gds), topcell)
    /\ runs' = runs + 1
    /\ prev' = Kept
    /\ layout' = ReadLayout(gds)
    /\ top' = IF topcell = "" THEN top_cell(ReadLayout(gds)).cell ELSE topcell
    /\ results' = <<>>
    /\ total_errors' = 0
    /\ evaluated' = <<>>
    /\ out' = <<>>
    /\ raised' = "none"
    /\ exit_status' = -1
    /\ i' = 1
    /\ pc' = "rules"
    /\ UNCHANGED <<gds, cell, calls, last, drv>>

\* drc_cell_not_found that exits with status 0
drc_cell_not_found_exit0(topcell) ==
    /\ CanStart
    /\ gds.written
    /\ topcell # "" /\ topcell \notin ReadLayout(gds).cells
    /\ runs' = runs + 1
    /\ prev' = Kept
    /\ layout' = ReadLayout(gds)
    /\ top' = ""
    /\ results' = <<>>
    /\ total_errors' = 0
    /\ evaluated' = <<>>
    /\ out' = <<Line("ERROR: Cell not found", 0, topcell)>>
    /\ raised' = "SystemExit"
    /\ exit_status' = 0
    /\ i' = 0
    /\ pc' = "exited"
    /\ UNCHANGED <<gds, cell, calls, last, drv>>

\* lines 73-77: layout.cell(topcell) is None, print the error, sys.exit(1)
drc_cell_not_found(topcell) ==
    /\ CanStart
    /\ gds.written
    /\ topcell # "" /\ topcell \notin ReadLayout(gds).cells
    /\ runs' = runs + 1
    /\ prev' = Kept
    /\ layout' = ReadLayout(gds)
    /\ results' = <<>>
    /\ total_errors' = 0
    /\ evaluated' = <<>>
    /\ top' = ""
    /\ out' = <<Line("ERROR: Cell not found", 0, topcell)>>
    /\ raised' = "SystemExit"
    /\ exit_status' = 1
    /\ i' = 0
    /\ pc' = "exited"
    /\ UNCHANGED <<gds, cell, calls, last, drv>>

\* drc_rule that leaves the loop at the first rule with violations
drc_rule_abort ==
    /\ pc = "rules"
    /\ \E up \in TieOutcomes(RULES[i].value, layout.dbu) :
       LET r      == RULES[i]
           region == Region(layout.shapes, r.layer)
           d      == value_dbu(r.value, layout.dbu, up)
           markers == RuleMarkers(region, r.check_type, d)
           count  == Cardinality(markers)
       IN  /\ layout' = LayoutLayer(layout, r.layer)
           /\ evaluated' = Append(evaluated, r.name)
           /\ IF RuleSkipped(region)
              THEN UNCHANGED <<results, total_errors, out>>
              ELSE /\ results' = Append(results, Result(r.name, r.desc, count, markers))
                   /\ total_errors' = total_errors + count
                   /\ out' = Append(out, Line(r.name, count, StatusOf(count)))
           /\ IF ~RuleSkipped(region) /\ count > 0
              THEN i' = 0 /\ pc' = "summary"
              ELSE IF i < Len(RULES)
                   THEN i' = i + 1 /\ pc' = "rules"
                   ELSE i' = 1 /\ pc' = "enc"
    /\ UNCHANGED <<top, exit_status, raised, runs, prev>>
    /\ UNCHANGED <<gds, cell, calls, last, drv>>

\* lines 93-117: one iteration of the width and spacing loop
drc_rule ==
    /\ pc = "rules"
    /\ \E up \in TieOutcomes(RULES[i].value, layout.dbu) :
       LET r      == RULES[i]
           region == Region(layout.shapes, r.layer)
           d      == value_dbu(r.value, layout.dbu, up)
           markers == RuleMarkers(region, r.check_type, d)
           count  == Cardinality(markers)
       IN  /\ layout' = LayoutLayer(layout, r.layer)
           /\ evaluated' = Append(evaluated, r.name)
           /\ IF RuleSkipped(region)
              THEN UNCHANGED <<results, total_errors, out>>
              ELSE /\ results' = Append(results, Result(r.name, r.desc, count, markers))
                   /\ total_errors' = total_errors + count
                   /\ out' = Append(out, Line(r.name, count, StatusOf(count)))
    /\ IF i < Len(RULES)
       THEN i' = i + 1 /\ pc' = "rules"
       ELSE i' = 1 /\ pc' = "enc"
    /\ UNCHANGED <<top, exit_status, raised, runs, prev>>
    /\ UNCHANGED <<gds, cell, calls, last, drv>>

\* drc_enc that saves the markers of a rule with violations into the
\* checked file, as shapes on the outer layer of the rule
drc_enc_saves_markers ==
    /\ pc = "enc"
    /\ \E up \in TieOutcomes(ENC_RULES[i].min_enc, layout.dbu) :
       LET r      == ENC_RULES[i]
           inner  == Region(layout.shapes, r.inner)
           outer  == Region(layout.shapes, r.outer)
           enc_dbu == value_dbu(r.min_enc, layout.dbu, up)
           violations == EncViolations(inner, outer, enc_dbu)
           count  == Cardinality(violations)
           boxes  == UNION violations
           RECURSIVE Saved(_)
           Saved(B) == IF B = {} THEN <<>>
                       ELSE LET b == CHOOSE x \in B : TRUE
                            IN  <<Shape(r.outer, b)>> \o Saved(B \ {b})
       IN  /\ layout' = LayoutLayer(LayoutLayer(layout, r.inner), r.outer)
           /\ evaluated' = Append(evaluated, r.name)
           /\ IF EncSkipped(inner, outer)
              THEN UNCHANGED <<results, total_errors, out, gds>>
              ELSE /\ total_errors' = total_errors + count
                   /\ results' = Append(results, Result(r.name, r.desc, count, violations))
                   /\ out' = Append(out, Line(r.name, count,
                                              IF count > 0 THEN "FAIL" ELSE "PASS"))
                   /\ gds' = [gds EXCEPT !.shapes = @ \o Saved(boxes)]
    /\ IF i < Len(ENC_RULES)
       THEN i' = i + 1 /\ pc' = "enc"
       ELSE i' = 0 /\ pc' = "summary"
    /\ UNCHANGED <<top, exit_status, raised, runs, prev>>
    /\ UNCHANGED <<cell, calls, last, drv>>

\* lines 124-152: one iteration of the enclosure loop
drc_enc ==
    /\ pc = "enc"
    /\ \E up \in TieOutcomes(ENC_RULES[i].min_enc, layout.dbu) :
       LET r      == ENC_RULES[i]
           inner  == Region(layout.shapes, r.inner)
           outer  == Region(layout.shapes, r.outer)
           enc_dbu == value_dbu(r.min_enc, layout.dbu, up)
           violations == EncViolations(inner, outer, enc_dbu)
           count  == Cardinality(violations)
       IN  /\ layout' = LayoutLayer(LayoutLayer(layout, r.inner), r.outer)
           /\ evaluated' = Append(evaluated, r.name)
           /\ IF EncSkipped(inner, outer)
              THEN UNCHANGED <<results, total_errors, out>>
              ELSE /\ total_errors' = total_errors + count
                   /\ results' = Append(results, Result(r.name, r.desc, count, violations))
                   /\ out' = Append(out, Line(r.name, count,
                                              IF count > 0 THEN "FAIL" ELSE "PASS"))
    /\ IF i < Len(ENC_RULES)
       THEN i' = i + 1 /\ pc' = "enc"
       ELSE i' = 0 /\ pc' = "summary"
    /\ UNCHANGED <<top, exit_status, raised, runs, prev>>
    /\ UNCHANGED <<gds, cell, calls, last, drv>>

\* lines 154-168: the summary, then return results, total_errors
drc_summary ==
    /\ pc = "summary"
    /\ out' = Append(out, Line("SUMMARY", total_errors,
                               IF total_errors = 0 THEN "DRC CLEAN" ELSE "DRC ERRORS"))
    /\ pc' = "returned"
    /\ UNCHANGED <<layout, top, i, evaluated, results, total_errors, exit_status,
                   raised, runs, prev>>
    /\ UNCHANGED <<gds, cell, calls, last, drv>>

\* lines 172-174: run_drc.py started without an argument prints the usage
\* line and exits with status 1; run_drc is not called and nothing is read
main_usage ==
    /\ CanStart
    /\ runs' = runs + 1
    /\ prev' = Kept
    /\ layout' = NoLayout
    /\ top' = ""
    /\ results' = <<>>
    /\ total_errors' = 0
    /\ evaluated' = <<>>
    /\ out' = <<Line("Usage", 0, "<gds_file> [top_cell]")>>
    /\ raised' = "SystemExit"
    /\ exit_status' = 1
    /\ i' = 0
    /\ pc' = "exited"
    /\ UNCHANGED <<gds, cell, calls, last, drv>>

\* lines 176-179: results, errors = run_drc(gds, cell); sys.exit(...)
main_exit ==
    /\ pc = "returned"
    /\ exit_status' = ExitCode(total_errors)
    /\ pc' = "exited"
    /\ UNCHANGED <<layout, top, i, evaluated, results, total_errors, out,
                   raised, runs, prev>>
    /\ UNCHANGED <<gds, cell, calls, last, drv>>

---------------------------------------------------------------------------

Next ==
    \/ \E len \in ResLengths : calls.res < MaxResistors /\ draw_resistor_h(0, 0, len)
    \/ \E k \in 1..Len(RectMenu) : insert_rect(k)
    \/ write
    \/ \E names \in OtherFiles : other_file(names)
    \/ drc_read_fails
    \/ drc_several_top_cells
    \/ drc_no_top_cell
    \/ \E t \in TopcellArgs : drc_start(t)
    \/ \E t \in TopcellArgs : drc_cell_not_found(t)
    \/ drc_rule
    \/ drc_enc
    \/ drc_summary
    \/ main_exit
    \/ main_usage

Spec == Init /\ [][Next]_vars

---------------------------------------------------------------------------
(* Resistor-ladder macro drivers: build_r2r_dac (gen_r2r_dac.py) and       *)
(* build_bias_dac with build_channel (gen_bias_dac.py).  One action per    *)
(* builder call or insert of the loop body, in the order of the source.    *)

R2_LENGTH     == R_LENGTH * 2
\* gap between consecutive series resistors
LADDER_GAP    == 300 * SUB
R2R_NAME      == "r2r_dac_8bit"
R2R_NBITS     == 8
R2R_MACRO_W   == 45000 * SUB
R2R_MACRO_H   == 60000 * SUB
BIAS_NAME     == "bias_dac_2ch"
BIAS_NBITS    == 4
BIAS_MACRO_W  == 35000 * SUB
BIAS_MACRO_H  == 40000 * SUB

DriverNames == {R2R_NAME, BIAS_NAME}

\* channels a driver builds
Channels(name) == IF name = BIAS_NAME THEN 2 ELSE 1

\* placement of channel ch of a driver: the locals of build_r2r_dac before
\* its loop, and the arguments build_bias_dac passes to build_channel
Channel(name, ch) ==
    IF name = R2R_NAME
    THEN LET r_total     == draw_resistor_h_total(R_LENGTH)
             chain_width == R2R_NBITS * r_total + (R2R_NBITS - 1) * LADDER_GAP
         IN  [x_start |-> (R2R_MACRO_W - chain_width) \div 2,
              series_y |-> 50000 * SUB, pin_base_y |-> 4000 * SUB,
              pin_pitch |-> 6000 * SUB, nbits |-> R2R_NBITS, pin_prefix |-> "d"]
    ELSE IF ch = 1
    THEN [x_start |-> 3000 * SUB, series_y |-> 30000 * SUB,
          pin_base_y |-> 24000 * SUB, pin_pitch |-> 3500 * SUB,
          nbits |-> BIAS_NBITS, pin_prefix |-> "d_fc"]
    ELSE [x_start |-> 3000 * SUB, series_y |-> 12000 * SUB,
          pin_base_y |-> 4000 * SUB, pin_pitch |-> 3500 * SUB,
          nbits |-> BIAS_NBITS, pin_prefix |-> "d_q"]

\* the locals of one loop iteration, from x_cursor and the loop index
Iteration(P, x_cursor, idx) ==
    LET bit    == P.nbits - 1 - idx
        r_rc   == draw_resistor_h_rc(x_cursor, P.series_y, R_LENGTH, R_WIDTH)
        jx     == r_rc[1]
        jy     == r_rc[2]
        r2_total_h == draw_resistor_h_total(R2_LENGTH)
        r2_y   == jy - r2_total_h - 500 * SUB
        r2_x   == jx - R_WIDTH \div 2
        sw_x   == jx - (SD_EXT + NMOS_L + SD_EXT \div 2)
        sw_y   == r2_y - 4500 * SUB
        sw     == draw_nmos_pins(sw_x, sw_y, NMOS_W, NMOS_L)
    IN  [bit |-> bit, jx |-> jx, jy |-> jy, r2_x |-> r2_x, r2_y |-> r2_y,
         r2_bc |-> draw_resistor_v_bc(r2_x, r2_y, R_WIDTH),
         r2_tc |-> draw_resistor_v_tc(r2_x, r2_y, R2_LENGTH, R_WIDTH),
         sw_x |-> sw_x, sw_y |-> sw_y, sw |-> sw,
         gv_x |-> sw.gate[1], gv_y |-> sw.gate[2] - 500 * SUB,
         pin_y |-> P.pin_base_y + bit * P.pin_pitch]

\* the iteration the driver is in
Cur == Iteration(Channel(drv.name, drv.ch), drv.x_cursor, drv.i)

\* inserts as the driver's log keeps them: with the bit whose gate route
\* they belong to (-1 for none) and what they are
Tagged(qs, net, role) ==
    [k \in 1..Len(qs) |->
        [layer |-> qs[k].layer, l |-> qs[k].l, b |-> qs[k].b, r |-> qs[k].r,
         t |-> qs[k].t, ch |-> drv.ch, net |-> net, role |-> role]]

\* a builder call or insert of a driver: the rectangles go into the cell
Emit(qs, net, role, op, len, next) ==
    /\ \E ups \in SUBSET Ties(qs) :
          /\ cell' = cell \o ShapesOf(IntsOf(qs, ups))
          /\ drv' = [next EXCEPT !.ins = @ \o Tagged(IntsOf(qs, ups), net, role)]
    /\ last' = [op |-> op, length |-> len, inserted |-> Len(qs), raised |-> FALSE,
                args |-> <<>>, ret |-> <<>>]
    /\ UNCHANGED <<gds, pc>>
    /\ UNCHANGED drcVars

\* the rails build_bias_dac inserts before its channels (lines 280, 283)
bias_rails ==
    << Raw(L_METAL3, 0, BIAS_MACRO_H - 2000 * SUB, BIAS_MACRO_W, BIAS_MACRO_H),
       Raw(L_METAL3, 0, 0, BIAS_MACRO_W, 2000 * SUB) >>

\* build_r2r_dac() / build_bias_dac() up to the first loop iteration
build_start(name) ==
    /\ pc = "build"
    /\ drv.pc = "none"
    /\ cell = <<>>
    /\ LET qs == IF name = BIAS_NAME THEN bias_rails ELSE << >>
       IN  Emit(qs, -1, "rail", "build", 0,
                [drv EXCEPT !.name = name, !.pc = "series", !.ch = 1, !.i = 0,
                            !.x_cursor = Channel(name, 1).x_start])
    /\ calls' = [calls EXCEPT !.rect = @ + (IF name = BIAS_NAME THEN 2 ELSE 0)]

\* lines 243-244 / 219-220: the series resistor of the bit
ladder_series ==
    /\ pc = "build"
    /\ drv.pc = "series"
    /\ LET y == Channel(drv.name, drv.ch).series_y
       IN  Emit(draw_resistor_h_rects(drv.x_cursor, y, R_LENGTH, R_WIDTH),
                -1, "series", "draw_resistor_h", R_LENGTH,
                [drv EXCEPT !.pc = "shunt",
                            !.res = Append(@, [kind |-> "series", length |-> R_LENGTH,
                                               bit |-> Cur.bit])])
    /\ calls' = [calls EXCEPT !.res = @ + 1]

\* ladder_shunt that draws the shunt with the series length
ladder_shunt_unit ==
    /\ pc = "build"
    /\ drv.pc = "shunt"
    /\ Emit(draw_resistor_v_rects(Cur.r2_x, Cur.r2_y, R_LENGTH, R_WIDTH),
            -1, "shunt", "draw_resistor_v", R_LENGTH,
            [drv EXCEPT !.pc = "wire_top",
                        !.res = Append(@, [kind |-> "shunt", length |-> R_LENGTH,
                                           bit |-> Cur.bit])])
    /\ calls' = [calls EXCEPT !.res = @ + 1]

\* lines 252-255 / 226-229: the 2R shunt below the junction
ladder_shunt ==
    /\ pc = "build"
    /\ drv.pc = "shunt"
    /\ Emit(draw_resistor_v_rects(Cur.r2_x, Cur.r2_y, R2_LENGTH, R_WIDTH),
            -1, "shunt", "draw_resistor_v", R2_LENGTH,
            [drv EXCEPT !.pc = "wire_top",
                        !.res = Append(@, [kind |-> "shunt", length |-> R2_LENGTH,
                                           bit |-> Cur.bit])])
    /\ calls' = [calls EXCEPT !.res = @ + 1]

\* lines 258-259 / 232-233: Metal1 from the junction to the shunt's top contact
ladder_wire_top ==
    /\ pc = "build"
    /\ drv.pc = "wire_top"
    /\ Emit(<< Raw(L_METAL1, Cur.jx - M1_WIDTH \div 2, Cur.r2_tc[2],
                             Cur.jx + M1_WIDTH \div 2, Cur.jy) >>,
            -1, "wire_top", "insert", 0, [drv EXCEPT !.pc = "switch"])
    /\ calls' = [calls EXCEPT !.rect = @ + 1]

\* lines 262-265 / 236-239: the NMOS switch
ladder_switch ==
    /\ pc = "build"
    /\ drv.pc = "switch"
    /\ Emit(draw_nmos_rects(Cur.sw_x, Cur.sw_y, NMOS_W, NMOS_L),
            -1, "switch", "draw_nmos", NMOS_L, [drv EXCEPT !.pc = "wire_drain"])
    /\ UNCHANGED calls

\* lines 268-269 / 242-243: Metal1 from the shunt's bottom contact to the drain
ladder_wire_drain ==
    /\ pc = "build"
    /\ drv.pc = "wire_drain"
    /\ Emit(<< Raw(L_METAL1, Cur.r2_bc[1] - M1_WIDTH \div 2, Cur.sw.drain[2],
                             Cur.r2_bc[1] + M1_WIDTH \div 2, Cur.r2_bc[2]) >>,
            -1, "wire_drain", "insert", 0, [drv EXCEPT !.pc = "gate_via"])
    /\ calls' = [calls EXCEPT !.rect = @ + 1]

\* lines 272-274 / 246-248: Via1 below the gate
ladder_gate_via ==
    /\ pc = "build"
    /\ drv.pc = "gate_via"
    /\ Emit(draw_via1_rects(Cur.gv_x, Cur.gv_y),
            Cur.bit, "gate_via", "draw_via1", 0, [drv EXCEPT !.pc = "pin_run"])
    /\ UNCHANGED calls

\* lines 277-279 / 251-253: Metal2 from the left edge to the gate via
ladder_pin_run ==
    /\ pc = "build"
    /\ drv.pc = "pin_run"
    /\ Emit(<< Raw(L_METAL2, 0, Cur.pin_y - M2_WIDTH,
                             Cur.gv_x + 200 * SUB, Cur.pin_y + M2_WIDTH) >>,
            Cur.bit, "pin_run", "insert", 0, [drv EXCEPT !.pc = "jog"])
    /\ calls' = [calls EXCEPT !.rect = @ + 1]

\* pin_rects.append of build_channel (lines 259-260): the name and the box
PinRect(P, it, ups) ==
    [name |-> <<P.pin_prefix, it.bit>>,
     box  |-> rect(0, it.pin_y - 500 * SUB, 500 * SUB, it.pin_y + 500 * SUB, ups)]

\* the argument positions of that rect() call that are ties
PinTies(it) ==
    {c \in 1..4 :
        IsTie(<<0, it.pin_y - 500 * SUB, 500 * SUB, it.pin_y + 500 * SUB>>[c], SUB)}

\* lines 281-284 / 255-262: the vertical Metal2 jog, then the end of the loop
\* body: x_cursor advances; build_channel also notes the bit's pin rectangle;
\* after the last bit of the last channel come the substrate taps
ladder_jog ==
    /\ pc = "build"
    /\ drv.pc = "jog"
    /\ \E pups \in SUBSET PinTies(Cur) :
       LET P    == Channel(drv.name, drv.ch)
           more == drv.i + 1 < P.nbits
           nxt  == IF more THEN "series"
                   ELSE IF drv.ch < Channels(drv.name) THEN "series" ELSE "taps"
       IN  Emit(<< Raw(L_METAL2, Cur.gv_x - M2_WIDTH,
                                 Min2(Cur.pin_y, Cur.gv_y) - 100 * SUB,
                                 Cur.gv_x + M2_WIDTH,
                                 Max2(Cur.pin_y, Cur.gv_y) + 100 * SUB) >>,
                Cur.bit, "jog", "insert", 0,
                [drv EXCEPT !.pc = nxt,
                            !.i = IF more THEN @ + 1 ELSE 0,
                            !.ch = IF more \/ nxt = "taps" THEN @ ELSE @ + 1,
                            !.x_cursor = IF ~more /\ nxt = "series"
                                         THEN Channel(drv.name, drv.ch + 1).x_start
                                         ELSE @ + draw_resistor_h_total(R_LENGTH) + LADDER_GAP,
                            !.pin_rects = IF drv.name = BIAS_NAME
                                          THEN Append(@, PinRect(P, Cur, pups)) ELSE @])
    /\ calls' = [calls EXCEPT !.rect = @ + 1]

\* lines 288-289 / 317-318 (gen_sc_svf.py:620-621): draw_ptap(...) names a function that no module
\* defines or imports: the call raises NameError, which no caller catches, so
\* the build function does not return, the generator script ends with the
\* traceback and layout.write is not reached
substrate_taps ==
    /\ pc = "build"
    /\ drv.pc = "taps"
    /\ drv' = [drv EXCEPT !.pc = "raised", !.error = "NameError"]
    /\ last' = [op |-> "draw_ptap", length |-> 0, inserted |-> 0, raised |-> TRUE,
                args |-> <<>>, ret |-> <<>>]
    /\ UNCHANGED <<cell, calls, gds, pc>>
    /\ UNCHANGED drcVars

---------------------------------------------------------------------------
(* Builders called on their own, and the design parameters                 *)

\* widths and gate lengths asked of the transistor builders: 0.10 um is
\* below ACTIV_WIDTH and below GATPOLY_WIDTH
TransistorWs == {100 * SUB, NMOS_W}
TransistorLs == {100 * SUB, NMOS_L}

\* origins of builder calls: on the grid, and off it as in the ladder loop
BuilderOrigins == {<<0, 0>>, <<R_LENGTH, R_LENGTH>>}

\* plate sizes of capacitors: the unit plates of draw_cap_array and the
\* integrator capacitor of build_sc_svf
CapSizes == {<<7000 * SUB, 7000 * SUB>>, <<7000 * SUB, 14000 * SUB>>,
             <<27100 * SUB, 27100 * SUB>>}

\* unit capacitors: origins (the corner of the capacitor region of
\* build_sar_adc, and one off the grid), sides (UNIT_SIDE = 1.2 um of
\* line 44, and one above the 1.44 um at which the TopMetal1 enclosure
\* changes), unit counts and columns
UnitOrigins == {<<2000 * SUB, 4000 * SUB>>, <<R_LENGTH, R_LENGTH>>}
UnitSides   == {1200 * SUB, 2000 * SUB}
UnitCounts  == {1, 3}
UnitCols    == {2, 16}

\* body lengths asked of the resistor builders
BodyLengths == {R_LENGTH, R2_LENGTH, 500 * SUB}

\* where build_svf places its two bias mirrors: bias_fc_x / bias_q_x, bias_y
BiasOrigins == {<<2000 * SUB, 57000 * SUB>>, <<8280 * SUB, 57000 * SUB>>}

\* sheet resistances, targets and widths of resistor segments: those of the
\* ladder generators (rhigh, R and 2R, 2 um) and others
SheetRs  == {RHIGH_SHEET_R, 315}
Targets  == {R_TARGET, 2 * R_TARGET, 1000}
Widths   == {R_WIDTH, 1000 * SUB}

\* gaps between the bodies of two resistor segments, all below Gat.b
PairGaps == {10 * SUB, 19 * SUB, 20 * SUB, 99 * SUB, 100 * SUB, 179 * SUB}

\* origin of the second segment: end to end after the first one, whose
\* body ends at the grid point OffTie(total length), or side by side above it
PairPlacements ==
    {<<OffTie(draw_resistor_h_total(R_LENGTH)) * SUB + g, 0>> : g \in PairGaps}
        \cup {<<0, R_WIDTH + g>> : g \in PairGaps}

\* resistor_length with sheet resistance and target exchanged
resistor_length_inverse(target, sheet, width) == (sheet * width) \div target

\* R_LENGTH = R_TARGET / RHIGH_SHEET_R * R_WIDTH (module level)
resistor_length(target, sheet, width) == (target * width) \div sheet

\* the module-level computation of the body length from the parameters
design_parameters(sheet, target, width) ==
    /\ pc = "build"
    /\ drv.pc = "none"
    /\ cell = <<>>
    /\ last.op = "none"
    /\ last' = [op |-> "R_LENGTH", length |-> resistor_length(target, sheet, width),
                inserted |-> 0, raised |-> FALSE, args |-> <<sheet, target, width>>,
                ret |-> <<>>]
    /\ UNCHANGED <<cell, calls, drv, gds, pc>>
    /\ UNCHANGED drcVars

\* a builder called on an empty cell: it inserts its rectangles and returns
\* its connection points
CallBuilder(op, qs, len, args, ret) ==
    /\ pc = "build"
    /\ drv.pc = "none"
    /\ cell = <<>>
    /\ \E ups \in SUBSET Ties(qs) :
          /\ cell' = ShapesOf(IntsOf(qs, ups))
          /\ drv' = [drv EXCEPT !.ins = Tagged(IntsOf(qs, ups), -1, op)]
    /\ last' = [op |-> op, length |-> len, inserted |-> Len(qs), raised |-> FALSE,
                args |-> args, ret |-> ret]
    /\ UNCHANGED <<calls, gds, pc>>
    /\ UNCHANGED drcVars

\* draw_nmos(cell, layout, x, y, w, l)
draw_nmos(x, y, w, l) ==
    LET pins == draw_nmos_pins(x, y, w, l)
    IN  CallBuilder("draw_nmos", draw_nmos_rects(x, y, w, l), l, <<w, l>>,
                    <<pins.gate, pins.source, pins.drain>>)

\* draw_pmos_transistor(cell, layout, x, y, w, l, draw_nwell)
draw_pmos_transistor(x, y, w, l, draw_nwell) ==
    LET pins == draw_nmos_pins(x, y, w, l)
    IN  CallBuilder("draw_pmos_transistor",
                    draw_pmos_transistor_rects(x, y, w, l, draw_nwell), l, <<w, l>>,
                    <<pins.gate, pins.source, pins.drain>>)

\* draw_bias(cell, layout, x, y)
draw_bias(x, y) ==
    CallBuilder("draw_bias", draw_bias_rects(x, y), BIAS_L, <<x, y>>,
                draw_bias_pins(x, y))

---------------------------------------------------------------------------
(* build_sar_adc (gen_sar_adc.py), capacitor DAC: the loop of lines        *)
(* 307-351 that places one merged plate per weight, the sample switch,     *)
(* the comparator, the logic block, then the substrate taps.               *)

SAR_NAME        == "sar_adc_8bit"
NBITS           == 8
SAR_MACRO_W     == 42000 * SUB
SAR_MACRO_H     == 45000 * SUB
MIM_MIN_SIZE    == 1140 * SUB
CAP_REGION_X    == 2000 * SUB
CAP_REGION_Y    == 4000 * SUB
COLUMN_STEP     == 12000 * SUB
TM1_MIN         == 1640 * SUB

\* C_UNIT = 2.0 fF over MIM_CAP_DENSITY = 1.5 fF/um2 (two thirds of C_UNIT),
\* times the unit count: the plate area, in nm2
C_UNIT == 2
CapArea(n) == (n * C_UNIT * 2 * 1000000) \div 3
\* three times that area, which is a whole number of nm2
Area3(n) == n * C_UNIT * 2 * 1000000

\* integer square root, by Newton's iteration from above
RECURSIVE IsqrtFrom(_, _)
IsqrtFrom(a, s) ==
    LET t == (s + a \div s) \div 2
    IN  IF t >= s THEN s ELSE IsqrtFrom(a, t)
Isqrt(a) == IF a = 0 THEN 0 ELSE IsqrtFrom(a, a)

\* the one element of a set of one element
The(S) == CHOOSE x \in S : TRUE

\* One more digit, of base B, of the square root of A / 3: s is the root
\* so far and r = A - 3 * s^2 what is left, both in the unit so far; the
\* digit is the largest g with 3 * (s * B + g)^2 <= A * B^2
RootDigit(s, r, B) ==
    CHOOSE g \in 0..(B - 1) :
        /\ 3 * (2 * s * B * g + g * g) <= r * B * B
        /\ \/ g = B - 1
           \/ 3 * (2 * s * B * (g + 1) + (g + 1) * (g + 1)) > r * B * B
\* root and rest with that digit, in the new unit
RootStep(p, B) ==
    The({[s |-> p.s * B + g, r |-> p.r * B * B - 3 * (2 * p.s * B * g + g * g)] :
            g \in {RootDigit(p.s, p.r, B)}})

\* The cursor of the loop and the heights it adds up are floats; the model
\* carries them in sixteenths of a step, cut downwards, so that the nine
\* heights summed stay within a step of the floats.
FINE == 16

\* area ** 0.5 of the plate of n units, root and rest: in whole nm, in
\* steps, and in sixteenths of a step (two digits of base 4)
RootNm(n) ==
    The({[s |-> s1, r |-> Area3(n) - 3 * s1 * s1] : s1 \in {Isqrt(CapArea(n))}})
RootSteps(n) == The({RootStep(p, SUB) : p \in {RootNm(n)}})
RootFine(n)  == The({RootStep(q, 4) : q \in {RootStep(p, 4) : p \in {RootSteps(n)}}})

\* area ** 0.5 as a length in steps, cut downwards
SqrtArea(n) == RootSteps(n).s
\* area ** 0.5 in sixteenths of a step, cut downwards
SqrtFine(n) == RootFine(n).s

\* area / w of an area in nm2 and a length w, as a length (long division,
\* one digit of the length unit at a time)
AreaOver(a, w) ==
    LET q1 == a \div w
        r1 == a % w
        q2 == (r1 * SUB) \div w
        r2 == (r1 * SUB) % w
        q3 == (r2 * SUB) \div w
    IN  q1 * SUB * SUB + q2 * SUB + q3

\* a unit count that doubles from the first weight on
nunits_doubling(bit) == 2 ^ bit

\* the unit count of a weight: 1 for the dummy LSB plate, 2^(bit-1) above
nunits(bit) == IF bit = 0 THEN 1 ELSE 2 ^ (bit - 1)

\* lines 313-318: width and height of the plate of a weight, in sixteenths
\* of a step.  area / w_cap: with w_cap the square root of the area the
\* quotient is that square root again; with w_cap the minimum plate
\* dimension it is the long division
cap_w(bit) ==
    LET side == Max2(MIM_MIN_SIZE * FINE, SqrtFine(nunits(bit)))
    IN  Max2(MIM_MIN_SIZE * FINE, side)
cap_h(bit) ==
    Max2(MIM_MIN_SIZE * FINE,
         IF SqrtArea(nunits(bit)) >= MIM_MIN_SIZE THEN SqrtFine(nunits(bit))
         ELSE AreaOver(Area3(nunits(bit)), 3 * MIM_MIN_SIZE) * FINE)

\* area ** 0.5 is a whole number of steps: nothing is left of the area
\* after the root in steps
SqrtExact(n) == RootSteps(n).r = 0

\* h_cap of line 318 is a whole number of steps: it is the minimum plate
\* dimension, or area / w_cap = area ** 0.5 with the square root exact.
\* Otherwise h_cap lies between cap_h and the sixteenth above it.
cap_h_exact(bit) ==
    \/ SqrtArea(nunits(bit)) < MIM_MIN_SIZE
    \/ SqrtExact(nunits(bit))

\* a column that is never found full
ColumnNeverFull(y, bit) == FALSE

\* line 321: the plate does not fit above the cursor y of the current
\* column, y in sixteenths of a step.  The test is strict on h_cap itself:
\* with h_cap above cap_h by a fraction of a sixteenth, the sum exceeds
\* the limit as soon as it reaches it in sixteenths.
ColumnFull(y, bit) ==
    IF cap_h_exact(bit)
    THEN y + cap_h(bit) + (MIM_SPACE + 2 * MIM_ENC_M5) * FINE
             > (SAR_MACRO_H - 6000 * SUB) * FINE
    ELSE y + cap_h(bit) + (MIM_SPACE + 2 * MIM_ENC_M5) * FINE
             >= (SAR_MACRO_H - 6000 * SUB) * FINE

\* lines 340-341: enclosure of the TopMetal1 plate along one dimension
tm1_enc(d) ==
    IF d < 1440 * SUB
    THEN Max2(100 * SUB, (TM1_MIN - d) \div 2 + 10 * SUB)
    ELSE 100 * SUB

\* the same with d and the result in sixteenths of a step
tm1_enc_fine(d) ==
    IF d < 1440 * SUB * FINE
    THEN Max2(100 * SUB * FINE, (TM1_MIN * FINE - d) \div 2 + 10 * SUB * FINE)
    ELSE 100 * SUB * FINE

\* lines 334-343: the three rectangles of a plate at (cx, cy), all four
\* lengths in sixteenths of a step: each argument of rect() is the sum the
\* code forms, cut to whole steps
cap_plate_rects(cx, cy, w, h) ==
    LET enc == MIM_ENC_M5 * FINE
        ew  == tm1_enc_fine(w)
        eh  == tm1_enc_fine(h)
    IN  << Raw(L_CMIM, cx \div FINE, cy \div FINE,
                       (cx + w) \div FINE, (cy + h) \div FINE),
           Raw(L_METAL5, (cx - enc) \div FINE, (cy - enc) \div FINE,
                         (cx + w + enc) \div FINE, (cy + h + enc) \div FINE),
           Raw(L_TOPMETAL1, (cx - ew) \div FINE, (cy - eh) \div FINE,
                            (cx + w + ew) \div FINE, (cy + h + eh) \div FINE) >>

\* draw_mim_unit(cell, layout, x, y, side): the Cmim square, the Metal5
\* plate around it, the TopMetal1 plate (lines 66-72)
draw_mim_unit_rects(x, y, side) ==
    << Raw(L_CMIM, x, y, x + side, y + side),
       Raw(L_METAL5, x - MIM_ENC_M5, y - MIM_ENC_M5,
                     x + side + MIM_ENC_M5, y + side + MIM_ENC_M5),
       Raw(L_TOPMETAL1, x - tm1_enc(side), y - tm1_enc(side),
                        x + side + tm1_enc(side), y + side + tm1_enc(side)) >>

\* line 74: the centre draw_mim_unit returns
draw_mim_unit_center(x, y, side) == <<x + side \div 2, y + side \div 2>>

\* line 83: pitch of the units of draw_cap_array
unit_pitch(side) == side + MIM_SPACE + 2 * MIM_ENC_M5

\* lines 85-91: where draw_cap_array(cell, layout, x0, y0, num_units, side,
\* cols) calls draw_mim_unit, unit i (from 0) in column i % cols of row
\* i // cols
sar_cap_array_units(x0, y0, num_units, side, cols) ==
    [k \in 1..num_units |->
        <<x0 + ((k - 1) % cols) * unit_pitch(side),
          y0 + ((k - 1) \div cols) * unit_pitch(side)>>]

\* the rectangles draw_cap_array of gen_sar_adc.py inserts
sar_draw_cap_array_rects(x0, y0, num_units, side, cols) ==
    LET u == sar_cap_array_units(x0, y0, num_units, side, cols)
    IN  Flatten([k \in 1..num_units |-> draw_mim_unit_rects(u[k][1], u[k][2], side)])

\* lines 93-98: the bounding box and the centres it returns
sar_draw_cap_array_ret(x0, y0, num_units, side, cols) ==
    LET u       == sar_cap_array_units(x0, y0, num_units, side, cols)
        max_col == IF num_units < cols THEN num_units ELSE cols
        max_row == (num_units + cols - 1) \div cols
    IN  << <<x0, y0, x0 + max_col * unit_pitch(side),
                     y0 + max_row * unit_pitch(side)>>,
           [k \in 1..num_units |-> draw_mim_unit_center(u[k][1], u[k][2], side)] >>

\* build_sar_adc() up to the loop over the weights
sar_start ==
    /\ pc = "build"
    /\ drv.pc = "none"
    /\ cell = <<>>
    /\ Emit(<< >>, -1, "start", "build", 0,
            [drv EXCEPT !.name = SAR_NAME, !.pc = "dac", !.ch = 1, !.i = 0,
                        !.x_cursor = CAP_REGION_X,
                        !.y_cursor = CAP_REGION_Y * FINE])
    /\ UNCHANGED calls

\* one iteration of the loop of line 307, for bit = drv.i.  drv.x_cursor is
\* in steps (it is 2.0 plus a multiple of 12.0), drv.y_cursor and the
\* lengths x, y, w, h, center of bit_areas are in sixteenths of a step
sar_cap ==
    /\ pc = "build"
    /\ drv.pc = "dac"
    /\ LET bit  == drv.i
           w    == cap_w(bit)
           h    == cap_h(bit)
           full == ColumnFull(drv.y_cursor, bit)
           cx   == IF full THEN drv.x_cursor + COLUMN_STEP ELSE drv.x_cursor
           cy   == IF full THEN CAP_REGION_Y * FINE ELSE drv.y_cursor
           more == bit < NBITS
       IN  Emit(cap_plate_rects(cx * FINE, cy, w, h), bit, "plate", "cap_dac",
                h \div FINE,
                [drv EXCEPT !.i = IF more THEN @ + 1 ELSE 0,
                            !.pc = IF more THEN "dac" ELSE "sample",
                            !.x_cursor = cx,
                            !.y_cursor = cy + h + (MIM_SPACE + 2 * MIM_ENC_M5
                                                   + 1000 * SUB) * FINE,
                            !.bit_areas = Append(@,
                                [bit |-> bit, nunits |-> nunits(bit),
                                 area |-> CapArea(nunits(bit)),
                                 x |-> cx * FINE, y |-> cy, w |-> w, h |-> h,
                                 center |-> <<cx * FINE + w \div 2,
                                              cy + h \div 2>>])])
    /\ UNCHANGED calls

\* line 356: the sample switch
sar_sample_switch ==
    /\ pc = "build"
    /\ drv.pc = "sample"
    /\ Emit(draw_nmos_rects(2000 * SUB, 22000 * SUB, 3000 * SUB, COMP_L), -1,
            "switch", "draw_nmos_transistor", COMP_L, [drv EXCEPT !.pc = "comp"])
    /\ UNCHANGED calls

\* line 361: the comparator
sar_comparator ==
    /\ pc = "build"
    /\ drv.pc = "comp"
    /\ Emit(draw_strongarm_comparator_rects(27000 * SUB, 25000 * SUB), -1,
            "comparator", "draw_strongarm_comparator", COMP_L,
            [drv EXCEPT !.pc = "logic"])
    /\ UNCHANGED calls

\* line 366: the logic block; the substrate taps come next
sar_logic ==
    /\ pc = "build"
    /\ drv.pc = "logic"
    /\ Emit(draw_sar_logic_block_rects(27000 * SUB, 4000 * SUB, SAR_W, SAR_H), -1,
            "logic", "draw_sar_logic_block", COMP_L, [drv EXCEPT !.pc = "taps"])
    /\ UNCHANGED calls

---------------------------------------------------------------------------
(* build_svf (gen_svf.py), from its first insert to its return: rails,    *)
(* amplifiers, bias mirrors, capacitors, signal routing, multiplexer, pin  *)
(* routing, pin labels, boundary.  build_svf makes no call of draw_ptap.   *)

SVF_NAME       == "svf_2nd (gm-C)"
SVF_MACRO_W    == 70000 * SUB
SVF_MACRO_H    == 85000 * SUB
SVF_C_INT_SIDE == 25800 * SUB
SVF_BOUNDARY   == <<0, 0>>
L_METAL2_PIN   == <<10, 2>>
L_METAL2_LBL   == <<10, 25>>
L_METAL3_PIN   == <<30, 2>>
L_METAL3_LBL   == <<30, 25>>

\* a Metal2 rectangle through the corners given
M2Wire(x1, y1, x2, y2) == Raw(L_METAL2, x1, y1, x2, y2)

\* lines 408-417: the origins of the four amplifiers (summing, int1, int2,
\* damping), and their dicts
svf_ota_origins ==
    LET ota_y == 63000 * SUB
        step  == draw_ota_pins(SVF_OTA, 2000 * SUB, ota_y).total_w + 2500 * SUB
    IN  [k \in 1..4 |-> <<2000 * SUB + (k - 1) * step, ota_y>>]
svf_otas ==
    [k \in 1..4 |-> draw_ota_pins(SVF_OTA, svf_ota_origins[k][1], svf_ota_origins[k][2])]

\* the origins of the two calls of draw_bias, fc mirror then q mirror
svf_bias_origins ==
    LET bias_y    == 57000 * SUB
        bias_fc_x == 2000 * SUB
        bias_q_x  == bias_fc_x + draw_bias_total_w + 2000 * SUB
    IN  << <<bias_fc_x, bias_y>>, <<bias_q_x, bias_y>> >>
svf_biases ==
    [k \in 1..2 |-> draw_bias_pins(svf_bias_origins[k][1], svf_bias_origins[k][2])]

\* lines 483-488: the two calls of draw_mim_cap
svf_caps ==
    LET cap_y == 30000 * SUB
        c1_x  == 3000 * SUB
        c2_x  == c1_x + SVF_C_INT_SIDE + MIM_SPACE + 2 * MIM_ENC_M5 + 1000 * SUB
    IN  << [x |-> c1_x, y |-> cap_y, w |-> SVF_C_INT_SIDE, h |-> SVF_C_INT_SIDE],
           [x |-> c2_x, y |-> cap_y, w |-> SVF_C_INT_SIDE, h |-> SVF_C_INT_SIDE] >>

\* the dict draw_analog_mux of gen_svf.py returns for the call of line 580
svf_mux ==
    LET sw == mux_switches(42000 * SUB, 6000 * SUB)
    IN  [lp_in |-> sw[1].source, bp_in |-> sw[2].source, hp_in |-> sw[3].source,
         bypass_in |-> sw[4].source, lp_gate |-> sw[1].gate, bp_gate |-> sw[2].gate,
         hp_gate |-> sw[3].gate, bypass_gate |-> sw[4].gate,
         out |-> sw[1].drain,
         total_h |-> 4 * mux_pitch, act_len |-> SD_EXT + MUX_L + SD_EXT]

\* lines 420-434: the loads to VDD, then the tails' sources to VSS
svf_supply_rects ==
    Flatten([k \in 1..4 |-> to_vdd_rects(svf_otas[k].vdd_l, SVF_MACRO_H)
                               \o to_vdd_rects(svf_otas[k].vdd_r, SVF_MACRO_H)]) \o
    Flatten([k \in 1..4 |-> to_vss_rects(svf_otas[k].vss)])

\* lines 450-478: the fc bus and its three taps, the q bus and its tap, then
\* the four sources of the mirrors to VSS
svf_bias_wiring_rects ==
    LET hw == M1_WIDTH \div 2
        o  == svf_otas
        fc == svf_biases[1]
        q  == svf_biases[2]
    IN  << M1Wire(fc.mir_drain[1] - hw, fc.mir_drain[2] - hw,
                  o[3].tail[1] + hw, fc.mir_drain[2] + hw) >> \o
        [k \in 1..3 |-> M1Wire(o[k].tail[1] - hw, fc.mir_drain[2] - hw,
                               o[k].tail[1] + hw, o[k].tail[2] + hw)] \o
        << M1Wire(q.mir_drain[1] - hw, q.mir_drain[2] - hw,
                  o[4].tail[1] + hw, q.mir_drain[2] + hw),
           M1Wire(o[4].tail[1] - hw, q.mir_drain[2] - hw,
                  o[4].tail[1] + hw, o[4].tail[2] + hw) >> \o
        Flatten([k \in 1..2 |-> to_vss_rects(svf_biases[k].ref_source)
                                   \o to_vss_rects(svf_biases[k].mir_source)])

\* two points joined on Metal2 on the level route_y: a via1 on each, a
\* vertical run from the level to the first, the level, a vertical run to
\* the second (lines 495-505, 508-518)
svf_node_rects(p1, p2, route_y) ==
    LET h == M2_WIDTH \div 2
    IN  draw_via1_rects(p1[1], p1[2]) \o draw_via1_rects(p2[1], p2[2]) \o
        << M2Wire(p1[1] - h, route_y - h, p1[1] + h, p1[2] + h),
           M2Wire(p1[1] - h, route_y - h, p2[1] + h, route_y + h),
           M2Wire(p2[1] - h, route_y - h, p2[1] + h, p2[2] + h) >>

\* lines 494-573: HP, BP and LP nodes, then the damping amplifier
svf_signal_routing_rects ==
    LET h     == M2_WIDTH \div 2
        ota_y == 63000 * SUB
        o     == svf_otas
        hp_y  == ota_y - 1000 * SUB
        bp_y  == ota_y - 2500 * SUB
        lp_y  == ota_y - 4000 * SUB
        dr_y  == ota_y - 5500 * SUB
        c1_top == draw_mim_cap_top(svf_caps[1].x, svf_caps[1].y, svf_caps[1].w, svf_caps[1].h)
        c2_top == draw_mim_cap_top(svf_caps[2].x, svf_caps[2].y, svf_caps[2].w, svf_caps[2].h)
        hp1   == o[1].out
        hp2   == o[2].inp
        bp1   == o[2].out
        bp2   == o[3].inp
        lp1   == o[3].out
        fb    == o[1].inn
        di    == o[4].inp
        dn    == o[4].inn
        do    == o[4].out
    IN  svf_node_rects(hp1, hp2, hp_y) \o
        svf_node_rects(bp1, bp2, bp_y) \o
        << M2Wire(bp1[1] - h, c1_top[2] - h, bp1[1] + h, bp_y + h) >> \o
        draw_via1_rects(lp1[1], lp1[2]) \o draw_via1_rects(fb[1], fb[2]) \o
        << M2Wire(lp1[1] - h, lp_y - h, lp1[1] + h, lp1[2] + h),
           M2Wire(Min2(fb[1], lp1[1]) - h, lp_y - h, Max2(fb[1], lp1[1]) + h, lp_y + h),
           M2Wire(fb[1] - h, lp_y - h, fb[1] + h, fb[2] + h),
           M2Wire(lp1[1] - h, c2_top[2] - h, lp1[1] + h, lp_y + h) >> \o
        draw_via1_rects(di[1], di[2]) \o
        << M2Wire(di[1] - h, bp_y - h, di[1] + h, di[2] + h),
           M2Wire(bp2[1] - h, bp_y - h, di[1] + h, bp_y + h) >> \o
        draw_via1_rects(dn[1], dn[2]) \o
        << M2Wire(dn[1] - h, hp_y - h, dn[1] + h, dn[2] + h),
           M2Wire(hp2[1] - h, hp_y - h, dn[1] + h, hp_y + h) >> \o
        draw_via1_rects(do[1], do[2]) \o
        << M2Wire(do[1] - h, dr_y - h, do[1] + h, do[2] + h),
           M2Wire(Min2(hp1[1], do[1]) - h, dr_y - h, Max2(hp1[1], do[1]) + h, dr_y + h),
           M2Wire(hp1[1] - h, dr_y - h, hp1[1] + h, hp_y + h) >>

\* lines 578-603: the multiplexer at (42.0, 6.0), then its LP, BP and HP
\* inputs tapped on Metal2
svf_mux_rects ==
    LET h  == M2_WIDTH \div 2
        m  == svf_mux
        hp == svf_otas[1].out
    IN  draw_analog_mux_rects(42000 * SUB, 6000 * SUB) \o
        draw_via1_rects(m.lp_in[1], m.lp_in[2]) \o
        << M2Wire(svf_caps[2].x + SVF_C_INT_SIDE \div 2 - h, m.lp_in[2] - h,
                  m.lp_in[1] + h, m.lp_in[2] + h) >> \o
        draw_via1_rects(m.bp_in[1], m.bp_in[2]) \o
        << M2Wire(svf_caps[1].x + SVF_C_INT_SIDE \div 2 - h, m.bp_in[2] - h,
                  m.bp_in[1] + h, m.bp_in[2] + h) >> \o
        draw_via1_rects(m.hp_in[1], m.hp_in[2]) \o
        << M2Wire(Min2(hp[1], m.hp_in[1]) - h, m.hp_in[2] - h,
                  Max2(hp[1], m.hp_in[1]) + h, m.hp_in[2] + h) >>

\* the y of the pins on the macro's edges (lines 610, 628, 642, 647, 652, 664)
svf_pin_y ==
    [vin |-> 42000 * SUB, vout |-> 42000 * SUB, sel0 |-> 10000 * SUB,
     sel1 |-> 16000 * SUB, ibias_fc |-> 60000 * SUB, ibias_q |-> 66000 * SUB]

\* a bias pin joined to the reference drain of its mirror (lines 652-672)
svf_ibias_rects(ref, pin_y) ==
    LET h == M2_WIDTH \div 2
    IN  draw_via1_rects(ref[1], ref[2]) \o
        << M2Wire(0, pin_y - h, ref[1] + h, pin_y + h),
           M2Wire(ref[1] - h, Min2(pin_y, ref[2]) - h,
                  ref[1] + h, Max2(pin_y, ref[2]) + h) >>

\* lines 609-672: vin and its bypass branch, vout, sel[0], sel[1], ibias_fc,
\* ibias_q
svf_pin_routing_rects ==
    LET h   == M2_WIDTH \div 2
        y   == svf_pin_y
        m   == svf_mux
        vin == svf_otas[1].inp
        jx  == m.out[1] + 1500 * SUB
    IN  draw_via1_rects(vin[1], vin[2]) \o
        << M2Wire(0, y.vin - h, vin[1] + h, y.vin + h),
           M2Wire(vin[1] - h, y.vin - h, vin[1] + h, vin[2] + h) >> \o
        draw_via1_rects(m.bypass_in[1], m.bypass_in[2]) \o
        << M2Wire(vin[1] - h, m.bypass_in[2] - h, m.bypass_in[1] + h, m.bypass_in[2] + h),
           M2Wire(vin[1] - h, m.bypass_in[2] - h, vin[1] + h, y.vin + h) >> \o
        draw_via1_rects(m.out[1], m.out[2]) \o
        << M2Wire(m.out[1] - h, m.out[2] - h, jx + h, m.out[2] + h),
           M2Wire(jx - h, Min2(m.out[2], y.vout) - h, jx + h, Max2(m.out[2], y.vout) + h),
           M2Wire(jx - h, y.vout - h, SVF_MACRO_W, y.vout + h),
           M2Wire(0, y.sel0 - h, m.lp_gate[1] + h, y.sel0 + h),
           M2Wire(0, y.sel1 - h, m.bp_gate[1] + h, y.sel1 + h) >> \o
        svf_ibias_rects(svf_biases[1].ref_drain, y.ibias_fc) \o
        svf_ibias_rects(svf_biases[2].ref_drain, y.ibias_q)

\* lines 677-695: the calls of add_pin_label, in order: pin layer, label
\* layer, the rectangle asked of rect(), the text
svf_pin_labels ==
    LET y  == svf_pin_y
        W  == SVF_MACRO_W
        H  == SVF_MACRO_H
        e  == 500 * SUB
        M2 == <<L_METAL2_PIN, L_METAL2_LBL, L_METAL2>>
        M3 == <<L_METAL3_PIN, L_METAL3_LBL, L_METAL3>>
    IN  << <<M2, Raw(L_METAL2_PIN, 0, y.vin - 2000 * SUB, e, y.vin + 2000 * SUB), "vin">>,
           <<M2, Raw(L_METAL2_PIN, W - e, y.vout - 2000 * SUB, W, y.vout + 2000 * SUB), "vout">>,
           <<M2, Raw(L_METAL2_PIN, 0, y.sel0 - 1000 * SUB, e, y.sel0 + 1000 * SUB), "sel[0]">>,
           <<M2, Raw(L_METAL2_PIN, 0, y.sel1 - 1000 * SUB, e, y.sel1 + 1000 * SUB), "sel[1]">>,
           <<M2, Raw(L_METAL2_PIN, 0, y.ibias_fc - 1000 * SUB, e, y.ibias_fc + 1000 * SUB), "ibias_fc">>,
           <<M2, Raw(L_METAL2_PIN, 0, y.ibias_q - 1000 * SUB, e, y.ibias_q + 1000 * SUB), "ibias_q">>,
           <<M3, Raw(L_METAL3_PIN, 0, H - 2000 * SUB, W, H), "vdd">>,
           <<M3, Raw(L_METAL3_PIN, 0, 0, W, 2000 * SUB), "vss">> >>

\* add_pin_label(cell, layer_pin, layer_lbl, box, name, layout), box being
\* what rect() has given the caller: the box goes on the pin layer as it
\* is, and the text object on the label layer, at the centre of the box
\* taken with floor division
add_pin_label(layers, box, name) ==
    [name |-> <<name, 0>>, text |-> name, layer |-> layers[2],
     at |-> <<(box.x1 + box.x2) \div 2, (box.y1 + box.y2) \div 2>>,
     box |-> box, metal |-> layers[3],
     ch |-> 1, net |-> -1]

\* build_svf() up to the first amplifier: the two Metal3 rails
svf_start ==
    /\ pc = "build"
    /\ drv.pc = "none"
    /\ cell = <<>>
    /\ Emit(<< Raw(L_METAL3, 0, SVF_MACRO_H - 2000 * SUB, SVF_MACRO_W, SVF_MACRO_H),
               Raw(L_METAL3, 0, 0, SVF_MACRO_W, 2000 * SUB) >>,
            -1, "rail", "build", 0,
            [drv EXCEPT !.name = SVF_NAME, !.pc = "otas", !.ch = 1, !.i = 0])
    /\ UNCHANGED calls

\* lines 411-417: the next call of draw_ota
svf_ota ==
    /\ pc = "build"
    /\ drv.pc = "otas"
    /\ drv.name = SVF_NAME
    /\ LET o    == svf_ota_origins[drv.i + 1]
           more == drv.i + 1 < Len(svf_ota_origins)
       IN  Emit(draw_ota_rects(SVF_OTA, o[1], o[2]), drv.i + 1, "ota", "draw_ota",
                OTA_DP_L,
                [drv EXCEPT !.i = IF more THEN @ + 1 ELSE 0,
                            !.pc = IF more THEN "otas" ELSE "supply"])
    /\ UNCHANGED calls

\* lines 420-434
svf_supply ==
    /\ pc = "build"
    /\ drv.pc = "supply"
    /\ Emit(svf_supply_rects, -1, "wire", "build", 0, [drv EXCEPT !.pc = "bias", !.i = 0])
    /\ UNCHANGED calls

\* lines 443 and 447: the next call of draw_bias
svf_bias ==
    /\ pc = "build"
    /\ drv.pc = "bias"
    /\ LET o    == svf_bias_origins[drv.i + 1]
           more == drv.i + 1 < Len(svf_bias_origins)
       IN  Emit(draw_bias_rects(o[1], o[2]), drv.i, "bias", "draw_bias", BIAS_L,
                [drv EXCEPT !.i = IF more THEN @ + 1 ELSE 0,
                            !.pc = IF more THEN "bias" ELSE "bias_wiring"])
    /\ UNCHANGED calls

\* lines 450-478
svf_bias_wiring ==
    /\ pc = "build"
    /\ drv.pc = "bias_wiring"
    /\ Emit(svf_bias_wiring_rects, -1, "wire", "build", 0,
            [drv EXCEPT !.pc = "svf_caps", !.i = 0])
    /\ UNCHANGED calls

\* lines 485 and 488: the next call of draw_mim_cap
svf_cap ==
    /\ pc = "build"
    /\ drv.pc = "svf_caps"
    /\ LET c    == svf_caps[drv.i + 1]
           more == drv.i + 1 < Len(svf_caps)
       IN  Emit(svf_draw_mim_cap_rects(c.x, c.y, c.w, c.h), drv.i + 1, "cap",
                "draw_mim_cap", c.h,
                [drv EXCEPT !.i = IF more THEN @ + 1 ELSE 0,
                            !.pc = IF more THEN "svf_caps" ELSE "routing"])
    /\ UNCHANGED calls

\* lines 494-573
svf_signal_routing ==
    /\ pc = "build"
    /\ drv.pc = "routing"
    /\ Emit(svf_signal_routing_rects, -1, "route", "build", 0,
            [drv EXCEPT !.pc = "mux"])
    /\ UNCHANGED calls

\* lines 578-603
svf_mux_routing ==
    /\ pc = "build"
    /\ drv.pc = "mux"
    /\ drv.name = SVF_NAME
    /\ Emit(svf_mux_rects, -1, "mux", "draw_analog_mux", MUX_L,
            [drv EXCEPT !.pc = "pins"])
    /\ UNCHANGED calls

\* lines 609-672
svf_pin_routing ==
    /\ pc = "build"
    /\ drv.pc = "pins"
    /\ Emit(svf_pin_routing_rects, -1, "pin", "build", 0, [drv EXCEPT !.pc = "labels"])
    /\ UNCHANGED calls

\* lines 677-695: the eight calls of add_pin_label: each is handed the box
\* of a rect() call, inserts it on the pin layer and a text on the label
\* layer
svf_labels ==
    /\ pc = "build"
    /\ drv.pc = "labels"
    /\ LET qs == [k \in 1..Len(svf_pin_labels) |-> svf_pin_labels[k][2]]
       IN  \E ups \in SUBSET Ties(qs) :
              LET bx == IntsOf(qs, ups)
              IN  /\ cell' = cell \o ShapesOf(bx)
                  /\ drv' = [drv EXCEPT
                                !.pc = "boundary",
                                !.ins = @ \o Tagged(bx, -1, "label"),
                                !.labels = [k \in 1..Len(qs) |->
                                    add_pin_label(svf_pin_labels[k][1],
                                                  ShapeOf(bx[k]).box,
                                                  svf_pin_labels[k][3])]]
                  /\ last' = [op |-> "add_pin_label", length |-> 0,
                              inserted |-> Len(qs), raised |-> FALSE,
                              args |-> <<>>, ret |-> <<>>]
    /\ UNCHANGED <<gds, pc, calls>>
    /\ UNCHANGED drcVars

\* lines 700-703: the boundary rectangle, then return layout, top
svf_return ==
    /\ pc = "build"
    /\ drv.pc = "boundary"
    /\ drv.name = SVF_NAME
    /\ Emit(<< Raw(SVF_BOUNDARY, 0, 0, SVF_MACRO_W, SVF_MACRO_H) >>,
            -1, "boundary", "build", 0, [drv EXCEPT !.pc = "returned"])
    /\ UNCHANGED calls

\* centres asked of the via builders: on the grid, off the grid, and half a
\* grid step off it in x (0.0005 um): the six x arguments of the three
\* rect() calls are ties then, each rounded on its own
ViaCentres == {<<0, 0>>, <<R_LENGTH, R_LENGTH>>, <<SUB \div 2, 0>>}

\* draw_via1(cell, layout, x, y)
draw_via1(x, y) ==
    CallBuilder("draw_via1", draw_via1_rects(x, y), VIA1_SIZE, <<x, y>>, <<>>)

\* draw_via2(cell, layout, x, y)
draw_via2(x, y) ==
    CallBuilder("draw_via2", draw_via2_rects(x, y), VIA2_SIZE, <<x, y>>, <<>>)

---------------------------------------------------------------------------
(* build_sc_svf (gen_sc_svf.py), from its first insert to the call of      *)
(* draw_ptap that ends it: rails, amplifiers and their wiring, clock        *)
(* generator, capacitors, transmission gates, multiplexer.                 *)

SC_NAME      == "svf_2nd"
SC_MACRO_W   == 62000 * SUB
SC_MACRO_H   == 72000 * SUB
C_INT_SIDE   == 27100 * SUB
C_SW_SIDE    == 7000 * SUB

\* gap of draw_cap_array: spacing between the plates of neighbouring caps
CapArrayGap == MIM_SPACE + 2 * MIM_ENC_M5

\* the four calls of draw_mim_cap in draw_cap_array(cell, layout, x, y)
draw_cap_array_caps(x, y) ==
    LET x1 == x + 7000 * SUB + CapArrayGap
        x2 == x1 + 7000 * SUB + CapArrayGap
        x3 == x2 + 14000 * SUB + CapArrayGap
    IN  << [x |-> x,  y |-> y, w |-> 7000 * SUB,  h |-> 7000 * SUB],
           [x |-> x1, y |-> y, w |-> 7000 * SUB,  h |-> 14000 * SUB],
           [x |-> x2, y |-> y, w |-> 14000 * SUB, h |-> 14000 * SUB],
           [x |-> x3, y |-> y, w |-> 20000 * SUB, h |-> 20000 * SUB] >>

\* total_w of draw_cap_array
draw_cap_array_total_w(x, y) ==
    (draw_cap_array_caps(x, y)[4].x + 20000 * SUB) - x

\* the calls of draw_mim_cap build_sc_svf makes, in order
sc_svf_caps ==
    LET cap_y    == 23000 * SUB
        c1_x     == 2000 * SUB
        c2_x     == c1_x + C_INT_SIDE + MIM_SPACE + 2 * MIM_ENC_M5 + 1000 * SUB
        cq_x     == 2000 * SUB
        cq_y     == 3000 * SUB
        sw_cap_y == 3000 * SUB
        csw1_x   == cq_x + draw_cap_array_total_w(cq_x, cq_y) + MIM_SPACE
                        + 2 * MIM_ENC_M5 + 500 * SUB
        csw2_y   == sw_cap_y + C_SW_SIDE + MIM_SPACE + 2 * MIM_ENC_M5 + 300 * SUB
    IN  << [x |-> c1_x, y |-> cap_y, w |-> C_INT_SIDE, h |-> C_INT_SIDE],
           [x |-> c2_x, y |-> cap_y, w |-> C_INT_SIDE, h |-> C_INT_SIDE] >>
        \o draw_cap_array_caps(cq_x, cq_y)
        \o << [x |-> csw1_x, y |-> sw_cap_y, w |-> C_SW_SIDE, h |-> C_SW_SIDE],
               [x |-> csw1_x, y |-> csw2_y,   w |-> C_SW_SIDE, h |-> C_SW_SIDE] >>

\* lines 505-510: the origins of the two amplifiers, and their dicts
sc_ota_origins ==
    LET ota_y  == 56000 * SUB
        ota2_x == 2000 * SUB + draw_ota_pins(SC_OTA, 2000 * SUB, ota_y).total_w
                      + 3000 * SUB
    IN  << <<2000 * SUB, ota_y>>, <<ota2_x, ota_y>> >>
sc_otas ==
    [k \in 1..2 |-> draw_ota_pins(SC_OTA, sc_ota_origins[k][1], sc_ota_origins[k][2])]

\* lines 513-542: the loads to VDD, the tails' sources to VSS, the tails'
\* gates to the bias bus, and the bus
sc_svf_wiring_rects ==
    LET hw         == M1_WIDTH \div 2
        bias_bus_y == 54000 * SUB
        o          == sc_otas
    IN  Flatten([k \in 1..2 |-> to_vdd_rects(o[k].vdd_l, SC_MACRO_H)
                                   \o to_vdd_rects(o[k].vdd_r, SC_MACRO_H)]) \o
        Flatten([k \in 1..2 |-> to_vss_rects(o[k].vss)]) \o
        [k \in 1..2 |-> M1Wire(o[k].tail[1] - hw, bias_bus_y - hw,
                               o[k].tail[1] + hw, o[k].tail[2] + hw)] \o
        << M1Wire(o[1].tail[1] - hw, bias_bus_y - hw,
                  o[2].tail[1] + hw, bias_bus_y + hw) >>

\* lines 547-563: the clock generator at (42.0, 50.0), then per pair the
\* NMOS source to VSS and the PMOS source to VDD
sc_svf_nol_rects ==
    LET nol_x == 42000 * SUB
        nol_y == 50000 * SUB
    IN  draw_nol_clock_rects(nol_x, nol_y) \o
        Flatten([k \in 1..4 |->
                    to_vss_rects(nol_nmos(nol_x, nol_y)[k].source)
                        \o to_vdd_rects(nol_pmos(nol_x, nol_y)[k].source, SC_MACRO_H)])

\* lines 600-607: the origins of the four transmission gates
sc_switch_origins ==
    LET sw_y       == 18000 * SUB
        sw_gap     == 2500 * SUB
        sw_start_x == 46000 * SUB
    IN  [k \in 1..4 |->
            <<sw_start_x + (k - 1) * (draw_cmos_switch_total_w + sw_gap), sw_y>>]

\* build_sc_svf() up to its first amplifier: the two Metal3 rails
sc_svf_start ==
    /\ pc = "build"
    /\ drv.pc = "none"
    /\ cell = <<>>
    /\ Emit(<< Raw(L_METAL3, 0, SC_MACRO_H - 2000 * SUB, SC_MACRO_W, SC_MACRO_H),
               Raw(L_METAL3, 0, 0, SC_MACRO_W, 2000 * SUB) >>,
            -1, "rail", "build", 0,
            [drv EXCEPT !.name = SC_NAME, !.pc = "otas", !.ch = 1, !.i = 0])
    /\ UNCHANGED calls

\* lines 508, 510: the next call of draw_ota
sc_svf_ota ==
    /\ pc = "build"
    /\ drv.pc = "otas"
    /\ drv.name = SC_NAME
    /\ LET o    == sc_ota_origins[drv.i + 1]
           more == drv.i + 1 < Len(sc_ota_origins)
       IN  Emit(draw_ota_rects(SC_OTA, o[1], o[2]), drv.i + 1, "ota", "draw_ota",
                OTA_DP_L,
                [drv EXCEPT !.i = IF more THEN @ + 1 ELSE 0,
                            !.pc = IF more THEN "otas" ELSE "wiring"])
    /\ UNCHANGED calls

\* lines 513-542
sc_svf_wiring ==
    /\ pc = "build"
    /\ drv.pc = "wiring"
    /\ drv.name = SC_NAME
    /\ Emit(sc_svf_wiring_rects, -1, "wire", "build", 0, [drv EXCEPT !.pc = "nol"])
    /\ UNCHANGED calls

\* lines 547-563
sc_svf_nol ==
    /\ pc = "build"
    /\ drv.pc = "nol"
    /\ Emit(sc_svf_nol_rects, -1, "nol", "draw_nol_clock", NOL_N_L,
            [drv EXCEPT !.pc = "caps", !.i = 0])
    /\ UNCHANGED calls

\* the next call of draw_mim_cap; after the last one come the switches
sc_svf_cap ==
    /\ pc = "build"
    /\ drv.pc = "caps"
    /\ drv.name = SC_NAME
    /\ LET c    == sc_svf_caps[drv.i + 1]
           more == drv.i + 1 < Len(sc_svf_caps)
       IN  Emit(draw_mim_cap_rects(c.x, c.y, c.w, c.h), drv.i + 1, "cap",
                "draw_mim_cap", c.h,
                [drv EXCEPT !.i = IF more THEN @ + 1 ELSE 0,
                            !.pc = IF more THEN "caps" ELSE "switches"])
    /\ UNCHANGED calls

\* lines 604-607: the next call of draw_cmos_switch
sc_svf_switch ==
    /\ pc = "build"
    /\ drv.pc = "switches"
    /\ LET o    == sc_switch_origins[drv.i + 1]
           more == drv.i + 1 < Len(sc_switch_origins)
       IN  Emit(draw_cmos_switch_rects(o[1], o[2]), drv.i + 1, "switch",
                "draw_cmos_switch", SW_N_L,
                [drv EXCEPT !.i = IF more THEN @ + 1 ELSE 0,
                            !.pc = IF more THEN "switches" ELSE "mux"])
    /\ UNCHANGED calls

\* line 614: draw_analog_mux at (46.0, 3.0); the substrate taps come next
sc_svf_mux ==
    /\ pc = "build"
    /\ drv.pc = "mux"
    /\ drv.name = SC_NAME
    /\ Emit(draw_analog_mux_rects(46000 * SUB, 3000 * SUB), -1, "mux",
            "draw_analog_mux", MUX_L, [drv EXCEPT !.pc = "taps"])
    /\ UNCHANGED calls

---------------------------------------------------------------------------
\* draw_mim_cap(cell, layout, x, y, w, h)
draw_mim_cap(x, y, w, h) ==
    CallBuilder("draw_mim_cap", draw_mim_cap_rects(x, y, w, h), h, <<w, h>>,
                <<draw_mim_cap_bot(x, y, w, h), draw_mim_cap_top(x, y, w, h)>>)

\* draw_mim_cap(cell, layout, x, y, w, h) of gen_svf.py
svf_draw_mim_cap(x, y, w, h) ==
    CallBuilder("svf_draw_mim_cap", svf_draw_mim_cap_rects(x, y, w, h), h, <<w, h>>,
                <<draw_mim_cap_bot(x, y, w, h), draw_mim_cap_top(x, y, w, h)>>)

\* draw_mim_unit(cell, layout, x, y, side) of gen_sar_adc.py
draw_mim_unit(x, y, side) ==
    CallBuilder("draw_mim_unit", draw_mim_unit_rects(x, y, side), side,
                <<x, y, side>>, draw_mim_unit_center(x, y, side))

\* draw_cap_array(cell, layout, x0, y0, num_units, side, cols) of
\* gen_sar_adc.py
sar_draw_cap_array(x0, y0, num_units, side, cols) ==
    CallBuilder("draw_cap_array",
                sar_draw_cap_array_rects(x0, y0, num_units, side, cols), side,
                <<x0, y0, num_units, side, cols>>,
                sar_draw_cap_array_ret(x0, y0, num_units, side, cols))

\* draw_resistor_h(cell, layout, x, y, length, width) with the width given
draw_resistor_h_sized(x, y, length, width) ==
    CallBuilder("draw_resistor_h", draw_resistor_h_rects(x, y, length, width),
                length, <<length, width>>,
                <<draw_resistor_h_lc(x, y, width),
                  draw_resistor_h_rc(x, y, length, width)>>)

\* draw_resistor_v(cell, layout, x, y, length, width)
draw_resistor_v(x, y, length, width) ==
    CallBuilder("draw_resistor_v", draw_resistor_v_rects(x, y, length, width),
                length, <<length, width>>,
                <<draw_resistor_v_bc(x, y, width),
                  draw_resistor_v_tc(x, y, length, width)>>)

MacroNext ==
    \/ \E n \in DriverNames : build_start(n)
    \/ ladder_series
    \/ ladder_shunt
    \/ ladder_wire_top
    \/ ladder_switch
    \/ ladder_wire_drain
    \/ ladder_gate_via
    \/ ladder_pin_run
    \/ ladder_jog
    \/ substrate_taps
    \/ sc_svf_start
    \/ sc_svf_ota
    \/ sc_svf_wiring
    \/ sc_svf_nol
    \/ sc_svf_cap
    \/ sc_svf_switch
    \/ sc_svf_mux
    \/ sar_start
    \/ sar_cap
    \/ sar_sample_switch
    \/ sar_comparator
    \/ sar_logic
    \/ svf_start
    \/ svf_ota
    \/ svf_supply
    \/ svf_bias
    \/ svf_bias_wiring
    \/ svf_cap
    \/ svf_signal_routing
    \/ svf_mux_routing
    \/ svf_pin_routing
    \/ svf_labels
    \/ svf_return
    \/ \E sh \in SheetRs, t \in Targets, w \in Widths : design_parameters(sh, t, w)
    \/ \E o \in BuilderOrigins, w \in TransistorWs, l \in TransistorLs :
            draw_nmos(o[1], o[2], w, l)
    \/ \E w \in TransistorWs, l \in TransistorLs, nw \in BOOLEAN :
            draw_pmos_transistor(0, 0, w, l, nw)
    \/ \E o \in BuilderOrigins, c \in CapSizes : draw_mim_cap(o[1], o[2], c[1], c[2])
    \/ \E o \in BuilderOrigins, c \in CapSizes : svf_draw_mim_cap(o[1], o[2], c[1], c[2])
    \/ \E o \in UnitOrigins, side \in UnitSides : draw_mim_unit(o[1], o[2], side)
    \/ \E o \in UnitOrigins, n \in UnitCounts, side \in UnitSides, c \in UnitCols :
            sar_draw_cap_array(o[1], o[2], n, side, c)
    \/ \E o \in BuilderOrigins, len \in BodyLengths, w \in Widths :
            draw_resistor_h_sized(o[1], o[2], len, w)
    \/ \E o \in BuilderOrigins, len \in BodyLengths, w \in Widths :
            draw_resistor_v(o[1], o[2], len, w)
    \/ \E o \in BiasOrigins : draw_bias(o[1], o[2])
    \/ \E o \in ViaCentres : draw_via1(o[1], o[2])
    \/ \E o \in ViaCentres : draw_via2(o[1], o[2])
    \/ calls.res = 0 /\ cell = <<>> /\ draw_resistor_h(0, 0, R_LENGTH)
    \/ \E p \in PairPlacements :
            /\ calls.res = 1
            /\ last.op = "draw_resistor_h"
            /\ draw_resistor_h(p[1], p[2], R_LENGTH)
    \/ write
    \/ runs < MaxMacroRuns /\ drc_read_fails
    \/ runs < MaxMacroRuns /\ drc_start("")
    \/ drc_rule
    \/ drc_enc
    \/ drc_summary
    \/ main_exit
    \/ runs < MaxMacroRuns /\ main_usage

MacroSpec == Init /\ [][MacroNext]_vars
---------------------------------------------------------------------------
(* Properties                                                              *)

\* the checker is past reading the layout with its cell found
InRun == pc \in {"rules", "enc", "summary", "returned"} \/ Returned

\* width/spacing rules whose loop body has run in the current run
RulesDone ==
    IF pc = "rules" THEN 1..(i - 1)
    ELSE IF InRun THEN 1..Len(RULES) ELSE {}

\* enclosure rules whose loop body has run in the current run
EncDone ==
    IF pc = "enc" THEN 1..(i - 1)
    ELSE IF InRun /\ pc # "rules" THEN 1..Len(ENC_RULES) ELSE {}

\* the checked cell has a rectangle on layer L
HasGeometry(L) == \E k \in 1..Len(layout.shapes) : layout.shapes[k].layer = L

\* boxes a and b have area in common
Overlap(a, b) ==
    /\ Max2(a.x1, b.x1) < Min2(a.x2, b.x2)
    /\ Max2(a.y1, b.y1) < Min2(a.y2, b.y2)

\* some rectangle on layer Li has area in common with one on layer Lo
LayersOverlap(Li, Lo) ==
    \E a \in Region(layout.shapes, Li) : \E b \in Region(layout.shapes, Lo) :
        Overlap(a, b)

Reported(name) == \E k \in 1..Len(results) : results[k].name = name
Printed(name) == \E k \in 1..Len(out) : out[k].rule = name

RECURSIVE SumCounts(_)
SumCounts(rs) == IF rs = <<>> THEN 0 ELSE rs[1].count + SumCounts(Tail(rs))

\* C1: a width or spacing rule whose layer has no geometry in the checked
\* cell is skipped: it has no entry in the results, no PASS or FAIL line is
\* printed for it, and the total is the sum of the counts of the rules that
\* were not skipped, whatever the other layers hold.
C1_EmptyLayerRuleSkipped ==
    \A k \in RulesDone :
        ~HasGeometry(RULES[k].layer) =>
            /\ ~Reported(RULES[k].name)
            /\ ~Printed(RULES[k].name)
            /\ total_errors = SumCounts(results)

\* a finished run in which a rule was skipped for want of geometry while
\* rules of other layers found violations
C1_Witness ==
    /\ pc = "exited" /\ Returned
    /\ \E k \in 1..Len(RULES) : ~HasGeometry(RULES[k].layer)
    /\ \E k \in 1..Len(results) : results[k].count > 0 /\ results[k].name = "M1.a"
    /\ HasGeometry(L_GATPOLY)

\* C2: an enclosure rule whose inner region is empty, or whose outer region
\* is empty, or whose inner and outer regions have no area in common, is
\* skipped: no entry in the results, no PASS or FAIL line, nothing added to
\* the total.
C2_EnclosureRuleSkipped ==
    \A k \in EncDone :
        LET r == ENC_RULES[k]
        IN  (\/ ~HasGeometry(r.inner)
             \/ ~HasGeometry(r.outer)
             \/ ~LayersOverlap(r.inner, r.outer)) =>
                /\ ~Reported(r.name)
                /\ ~Printed(r.name)
                /\ total_errors = SumCounts(results)

\* a finished run that skipped Cnt.c with contacts and Activ both present
\* but apart, skipped V1.c with the inner layer absent and the outer one
\* present, and skipped NW.c with the outer layer absent
C2_Witness ==
    /\ pc = "exited" /\ Returned
    /\ HasGeometry(L_CONT) /\ HasGeometry(L_ACTIV) /\ ~LayersOverlap(L_CONT, L_ACTIV)
    /\ ~HasGeometry(L_VIA1) /\ HasGeometry(L_METAL1)
    /\ ~HasGeometry(L_NWELL)
    /\ ~Reported("Cnt.c") /\ ~Reported("V1.c") /\ ~Reported("NW.c")
    /\ Reported("Cnt.d")

\* the rectangles of layer Li that have area in common with layer Lo
InnerOnOuter(Li, Lo) ==
    {a \in Region(layout.shapes, Li) :
        \E b \in Region(layout.shapes, Lo) : Overlap(a, b)}

\* box m lies within box a grown by d
Within(m, a, d) ==
    a.x1 - d <= m.x1 /\ m.x2 <= a.x2 + d /\ a.y1 - d <= m.y1 /\ m.y2 <= a.y2 + d

\* C3: inner shapes that do not overlap the outer layer never produce a
\* marker of an enclosure rule: every marker lies within the threshold of
\* an inner shape that overlaps the outer layer, and the rule's count is the
\* count the same cell gives with the non-overlapping inner shapes removed.
C3_DisjointInnerNotFlagged ==
    \A k \in 1..Len(results) : \A n \in EncDone :
        (results[k].name = ENC_RULES[n].name) =>
            LET r    == ENC_RULES[n]
                d    == r.min_enc \div SUB
                keep == InnerOnOuter(r.inner, r.outer)
                outer == Region(layout.shapes, r.outer)
            IN  /\ \A poly \in results[k].markers : \A m \in poly :
                       \E a \in keep : Within(m, a, d)
                /\ results[k].count =
                       RegionSize(RegionMinus(sized(RegionAnd(keep, outer), d), outer))

\* a finished run where Cnt.c flags the contact that sits on Activ while
\* the cell also holds contacts that sit on no Activ (those of a resistor)
C3_Witness ==
    /\ pc = "exited" /\ Returned
    /\ \E k \in 1..Len(results) : results[k].name = "Cnt.c" /\ results[k].count = 1
    /\ Region(layout.shapes, L_CONT) \ InnerOnOuter(L_CONT, L_ACTIV) # {}
    /\ InnerOnOuter(L_CONT, L_ACTIV) # {}

C5_CheckerReadOnly ==
    (runs > 0 /\ gds.written) =>
        /\ gds.shapes = cell
        /\ ~UsageExit =>
              /\ layout.shapes = gds.shapes
              /\ layout.texts = gds.texts
              /\ \A L \in layout.layers : Region(layout.shapes, L) = Region(cell, L)

\* the checker has returned with violations found and rules skipped, having
\* looked up layers the file did not hold
C5_Witness ==
    /\ pc = "returned"
    /\ total_errors > 0
    /\ Len(results) < Len(evaluated)
    /\ Len(cell) > 7
    /\ layout.layers # ReadLayout(gds).layers

\* C6: when run_drc returns, the total is the sum of the counts of the
\* results list; the process exits 0 exactly when the total is 0, and 1
\* when some rule has a non-zero count.
C6_TotalAndExitStatus ==
    /\ Returned => total_errors = SumCounts(results)
    /\ (pc = "exited" /\ Returned) =>
          /\ (exit_status = 0) <=> (total_errors = 0)
          /\ (\E k \in 1..Len(results) : results[k].count # 0) => exit_status = 1

\* a finished run in which two rules have non-zero counts
C6_Witness ==
    /\ pc = "exited" /\ Returned
    /\ \E k, n \in 1..Len(results) : k # n /\ results[k].count > 0 /\ results[n].count > 0
    /\ total_errors >= 2
    /\ exit_status = 1

\* rule n of the two tables taken as one: its name, and whether the
\* checked cell gives it something to check
NameAt(n) ==
    IF n <= Len(RULES) THEN RULES[n].name ELSE ENC_RULES[n - Len(RULES)].name
Ran(n) ==
    IF n <= Len(RULES) THEN HasGeometry(RULES[n].layer)
    ELSE LayersOverlap(ENC_RULES[n - Len(RULES)].inner, ENC_RULES[n - Len(RULES)].outer)

RECURSIVE NamesUpTo(_)
NamesUpTo(m) == IF m = 0 THEN <<>> ELSE Append(NamesUpTo(m - 1), NameAt(m))

RECURSIVE RanUpTo(_)
RanUpTo(m) ==
    IF m = 0 THEN <<>>
    ELSE IF Ran(m) THEN Append(RanUpTo(m - 1), NameAt(m)) ELSE RanUpTo(m - 1)

RECURSIVE Names(_)
Names(rs) == IF rs = <<>> THEN <<>> ELSE <<rs[1].name>> \o Names(Tail(rs))

\* number of rules whose loop body has run in the current run
Progress ==
    IF pc = "rules" THEN i - 1
    ELSE IF pc = "enc" THEN Len(RULES) + i - 1
    ELSE Len(RULES) + Len(ENC_RULES)

\* C7: a violation never aborts the check: the rules are evaluated in table
\* order, RULES before ENC_RULES, none left out, and the results list holds
\* one entry per rule that was not skipped, in that order, whatever counts
\* the earlier rules had; run_drc returns only after the last rule.
C7_EveryRuleInTableOrder ==
    InRun =>
        /\ raised = "none"
        /\ evaluated = NamesUpTo(Progress)
        /\ Names(results) = RanUpTo(Progress)

\* run_drc has returned; Gat.b found a violation and rules after it,
\* enclosure rules among them, were still evaluated and reported
C7_Witness ==
    /\ pc = "returned"
    /\ \E k \in 1..Len(results) :
          /\ results[k].name = "Gat.b" /\ results[k].count > 0
          /\ k + 3 < Len(results)
    /\ results[Len(results)].name = "Cnt.d"
    /\ Len(evaluated) = Len(RULES) + Len(ENC_RULES)

\* C8 as claimed: checking a cell with no geometry on any layer ends in an
\* error, not in a clean report and exit status 0.  (The file holds the
\* cell: a file without any cell has no empty cell to check.)
C8_EmptyCellRaises ==
    (/\ pc = "exited" /\ runs > 0
     /\ gds.written /\ gds.cells # {} /\ gds.shapes = <<>>) =>
        (raised # "none" /\ exit_status # 0)

\* C8 as the code has it: a cell with no geometry is checked like any
\* other: every rule is skipped, run_drc returns an empty results list and a
\* total of 0, the report is DRC CLEAN and the exit status 0.
C8_EmptyCellReportedClean ==
    (InRun /\ layout.shapes = <<>>) =>
        /\ raised = "none"
        /\ top \in layout.cells
        /\ results = <<>>
        /\ total_errors = 0
        /\ pc \in {"returned", "exited"} => out = <<Line("SUMMARY", 0, "DRC CLEAN")>>
        /\ pc = "exited" => exit_status = 0

\* the checker has finished on an empty cell, all rules gone through
C8_Witness ==
    /\ pc = "exited" /\ Returned
    /\ gds.written /\ gds.shapes = <<>> /\ top \in gds.cells
    /\ Len(evaluated) = Len(RULES) + Len(ENC_RULES)
    /\ exit_status = 0

\* C9: given a cell name the layout does not have, run_drc prints the error
\* and exits with status 1 before any rule: no layer is looked up, no rule
\* is evaluated, there is no results list and no total, and it does not
\* return; rules are only ever evaluated on a cell that was found.  (The
\* other exit of the process, at the usage message, is before run_drc.)
C9_UnknownCellExitsBeforeRules ==
    /\ (raised = "SystemExit" /\ ~UsageExit) =>
          /\ pc = "exited"
          /\ exit_status = 1
          /\ top = ""
          /\ ~Returned
          /\ evaluated = <<>>
          /\ results = <<>> /\ total_errors = 0
          /\ layout.layers = ReadLayout(gds).layers
          /\ Len(out) = 1 /\ out[1].rule = "ERROR: Cell not found"
          /\ out[1].status \notin layout.cells
    /\ InRun => top \in layout.cells

\* a run with an unknown cell name on a layout that a complete earlier run
\* found violations in
C9_Witness ==
    /\ raised = "SystemExit" /\ ~UsageExit
    /\ prev.returned /\ prev.total_errors > 0
    /\ Len(layout.shapes) > 0

\* C10 as claimed: a resistor asked for with a body length of zero or less
\* makes the builder fail, and nothing is inserted into the cell.
C10_NonPositiveLengthRejected ==
    (last.op = "draw_resistor_h" /\ last.length <= 0) =>
        (last.raised /\ last.inserted = 0)


---------------------------------------------------------------------------
(* Claims about the builders and the macro drivers, under MacroSpec        *)

\* the transistor builders
TransistorOps == {"draw_nmos", "draw_pmos_transistor"}

\* C11 as claimed: a transistor builder asked for a gate length below
\* GATPOLY_WIDTH or a width below ACTIV_WIDTH fails and inserts nothing.
C11_SubMinimumTransistorRejected ==
    (/\ last.op \in TransistorOps
     /\ Len(last.args) = 2
     /\ (last.args[2] < GATPOLY_WIDTH \/ last.args[1] < ACTIV_WIDTH))
        => (last.raised /\ last.inserted = 0)

\* the calls of the resistor builders a driver has made, of one kind
CallsOfKind(kind) == {k \in 1..Len(drv.res) : drv.res[k].kind = kind}

\* the loop of the ladder driver is over
LadderLoopDone == drv.pc \in {"taps", "raised"}

\* C12: in the 8-bit ladder macro every series resistor is drawn with body
\* length target / sheet * width (3.077 um on the grid), every shunt resistor
\* with exactly twice that (6.154 um on the grid), no resistor builder is
\* called with another length, and once the loop is over there are 8 calls
\* of each kind, one per bit.
C12_LadderLengths ==
    drv.name = R2R_NAME =>
        /\ \A k \in CallsOfKind("series") :
               /\ drv.res[k].length = resistor_length(R_TARGET, RHIGH_SHEET_R, R_WIDTH)
               /\ OffTie(drv.res[k].length) = 3077
        /\ \A k \in CallsOfKind("shunt") :
               /\ drv.res[k].length = 2 * resistor_length(R_TARGET, RHIGH_SHEET_R, R_WIDTH)
               /\ OffTie(drv.res[k].length) = 6154
        /\ CallsOfKind("series") \cup CallsOfKind("shunt") = 1..Len(drv.res)
        /\ calls.res = Len(drv.res)
        /\ LadderLoopDone =>
               \A kind \in {"series", "shunt"} :
                   /\ Cardinality(CallsOfKind(kind)) = 8
                   /\ \A b \in 0..7 :
                          Cardinality({k \in CallsOfKind(kind) : drv.res[k].bit = b}) = 1

C12_Witness ==
    /\ drv.name = R2R_NAME
    /\ drv.pc = "taps"
    /\ Len(drv.res) = 16
    /\ drv.res[15].kind = "series" /\ drv.res[15].length = R_LENGTH
    /\ drv.res[16].kind = "shunt" /\ drv.res[16].length = R2_LENGTH

Diff(a, b) == IF a >= b THEN a - b ELSE b - a

\* the body length on the grid, in nm, gives the target within the
\* resistance of one grid step of body: | L * sheet / width - target | <=
\* sheet / width * 1 nm, cross-multiplied by the width in nm
ReproducesTarget(length, sheet, target, width) ==
    Diff(OffTie(length) * sheet, target * OffTie(width)) <= sheet

\* target of a resistor a ladder driver draws: R for series, 2R for shunt
TargetOfKind(kind) == IF kind = "shunt" THEN 2 * R_TARGET ELSE R_TARGET

\* C13 as claimed: the body length multiplied by (width / sheet resistance)
\* reproduces the target resistance within the error of one grid step of
\* length.  Lengths in um: nm * nm / 10^6; the integer quotient and the
\* error of one grid step (0.001 um * width / sheet) are each below 1.
C13_LengthTimesWidthOverSheet ==
    last.op = "R_LENGTH" =>
        LET sheet  == last.args[1]
            target == last.args[2]
            width  == last.args[3]
        IN  Diff((OffTie(last.length) * OffTie(width)) \div (sheet * 1000000), target) <= 1

\* C13, amended: the body length divided by (width / sheet resistance), that
\* is length * sheet / width, reproduces the target resistance within the
\* resistance of one grid step of body, for every computed length and for
\* every resistor the ladder drivers draw.
C13_LengthOverSquaresReproducesTarget ==
    /\ last.op = "R_LENGTH" =>
           ReproducesTarget(last.length, last.args[1], last.args[2], last.args[3])
    /\ \A k \in 1..Len(drv.res) :
           ReproducesTarget(drv.res[k].length, RHIGH_SHEET_R,
                            TargetOfKind(drv.res[k].kind), R_WIDTH)

\* a length that is not a whole number of grid steps has been computed
C13_Witness ==
    /\ last.op = "R_LENGTH"
    /\ last.args = <<RHIGH_SHEET_R, R_TARGET, R_WIDTH>>
    /\ last.length = R_LENGTH
    /\ OffTie(last.length) * SUB # last.length
    /\ OffTie(last.length) = 3077

\* C14 as claimed: build_r2r_dac produces a layout, and checking it with
\* run_drc ends with a total of 0 violations and exit status 0.
C14_LadderMacroChecksClean ==
    drv.name = R2R_NAME =>
        /\ drv.error = "none"
        /\ pc = "exited" =>
               /\ raised = "none"
               /\ total_errors = 0
               /\ exit_status = 0

\* two resistor segments have been built, written and checked by a run of
\* run_drc that has returned
PairChecked == calls.res = 2 /\ last.op = "draw_resistor_h" /\ Returned

\* the second segment lies to the right of the first (end to end), or above
\* it (side by side); the gap between the two bodies
EndToEnd == last.args[2] = 0
PairGap ==
    IF EndToEnd THEN last.args[1] - OffTie(draw_resistor_h_total(R_LENGTH)) * SUB
    ELSE last.args[2] - R_WIDTH

\* violations the run reports for a rule (0 when the rule is not reported)
CountOf(name) ==
    LET ks == {k \in 1..Len(results) : results[k].name = name}
    IN  IF ks = {} THEN 0 ELSE results[CHOOSE k \in ks : TRUE].count

\* C15 as claimed: two segments whose bodies are closer than Gat.b get at
\* least one Gat.b violation and no violation of any other rule.
C15_OnlyGatPolySpacingReported ==
    (PairChecked /\ PairGap > 0 /\ PairGap < 180 * SUB) =>
        /\ CountOf("Gat.b") >= 1
        /\ \A k \in 1..Len(results) :
               results[k].name # "Gat.b" => results[k].count = 0

\* the rules other than Gat.b that fire on a pair with this placement: the
\* facing Metal1 end pads are gap + 0.08 um apart and the facing contacts
\* gap + 0.16 um when the segments are end to end
ExpectedBesidesGatPoly ==
    IF ~EndToEnd THEN {}
    ELSE (IF PairGap < 100 * SUB THEN {"M1.b"} ELSE {})
            \cup (IF PairGap < 20 * SUB THEN {"Cnt.b"} ELSE {})

\* C15, amended: two segments whose bodies are closer than Gat.b get at
\* least one Gat.b violation; side by side, and end to end with a gap of at
\* least 0.10 um, no other rule reports a violation; end to end with a
\* smaller gap the Metal1 spacing rule M1.b reports the facing end pads too,
\* and below 0.02 um the contact spacing rule Cnt.b the facing contacts, and
\* no further rule reports anything.
C15_GatPolySpacingAndFacingPads ==
    (PairChecked /\ PairGap > 0 /\ PairGap < 180 * SUB) =>
        /\ CountOf("Gat.b") >= 1
        /\ \A k \in 1..Len(results) :
               results[k].name # "Gat.b" =>
                   (results[k].count > 0 <=> results[k].name \in ExpectedBesidesGatPoly)

\* the checker has reported a pair placed end to end, 0.01 um apart
C15_Witness ==
    /\ PairChecked
    /\ EndToEnd
    /\ PairGap = 10 * SUB
    /\ CountOf("Gat.b") >= 1
    /\ CountOf("M1.b") >= 1
    /\ CountOf("Cnt.b") >= 1

\* the build function of a macro driver has ended, by return or by an error
DriverEnded == drv.pc \in {"returned", "raised"}

\* pin labels the driver has emitted for a terminal name
LabelsNamed(name) == {k \in 1..Len(drv.labels) : drv.labels[k].name = name}

\* C16 as claimed: when a ladder driver has ended, each of its channels of N
\* bits has exactly one digital-input pin label per bit 0..N-1 and exactly
\* one analog output label, and no two labels have the same coordinates.
C16_PinLabelsPerChannel ==
    (DriverEnded /\ drv.name \in DriverNames) =>
        /\ \A ch \in 1..Channels(drv.name) :
               LET P == Channel(drv.name, ch)
               IN  /\ \A b \in 0..(P.nbits - 1) :
                          Cardinality(LabelsNamed(<<P.pin_prefix, b>>)) = 1
                   /\ Cardinality(LabelsNamed(<<"vout", ch>>)) = 1
        /\ \A j, k \in 1..Len(drv.labels) :
               j # k => drv.labels[j].box # drv.labels[k].box

MetalLayers == {L_METAL1, L_METAL2, L_METAL3}

\* two inserted rectangles lie on the same metal layer and overlap or touch
Shorted(p, q) ==
    LET a == ShapeOf(p).box
        b == ShapeOf(q).box
    IN  /\ p.layer = q.layer
        /\ p.layer \in MetalLayers
        /\ a.x1 <= b.x2 /\ b.x1 <= a.x2
        /\ a.y1 <= b.y2 /\ b.y1 <= a.y2

\* the rectangles of the gate route of a bit of a channel: via pads,
\* horizontal run and vertical jog
GateRoute(ch, bit) ==
    {k \in 1..Len(drv.ins) : drv.ins[k].ch = ch /\ drv.ins[k].net = bit}

\* C17 as claimed: within a ladder channel no rectangle of the gate route of
\* one bit overlaps or touches, on the same metal layer, a rectangle of the
\* gate route of another bit.
C17_BitRoutesNeverShorted ==
    drv.name \in DriverNames =>
        \A ch \in 1..Channels(drv.name) :
            \A bi, bj \in 0..(Channel(drv.name, ch).nbits - 1) :
                bi # bj =>
                    \A j \in GateRoute(ch, bi), k \in GateRoute(ch, bj) :
                        ~Shorted(drv.ins[j], drv.ins[k])

\* the external terminals the label code of a ladder driver names: the
\* digital inputs and the analog output of each channel, and the two rails
Terminals(name) ==
    UNION {{<<Channel(name, ch).pin_prefix, b>> : b \in 0..(Channel(name, ch).nbits - 1)}
              \cup {<<"vout", ch>>} : ch \in 1..Channels(name)}
        \cup {<<"vdd", 0>>, <<"vss", 0>>}

\* a label lies on metal of its own terminal: some inserted rectangle of the
\* label's metal layer and net overlaps the label's rectangle
OnOwnMetal(lbl) ==
    \E j \in 1..Len(drv.ins) :
        LET a == ShapeOf(drv.ins[j]).box
        IN  /\ drv.ins[j].layer = lbl.metal
            /\ drv.ins[j].ch = lbl.ch /\ drv.ins[j].net = lbl.net
            /\ a.x1 < lbl.box.x2 /\ lbl.box.x1 < a.x2
            /\ a.y1 < lbl.box.y2 /\ lbl.box.y1 < a.y2

\* C18 as claimed: a macro driver that has ended has emitted exactly one pin
\* label for each of its external terminals, and each label overlaps metal of
\* its own terminal on the label's metal layer.
C18_OneLabelPerTerminalOnOwnMetal ==
    (DriverEnded /\ drv.name \in DriverNames) =>
        /\ \A t \in Terminals(drv.name) : Cardinality(LabelsNamed(t)) = 1
        /\ \A k \in 1..Len(drv.labels) :
               /\ drv.labels[k].name \in Terminals(drv.name)
               /\ OnOwnMetal(drv.labels[k])

\* layout.layer(189, 0): the placement-boundary layer of the ladder drivers
L_BOUNDARY == <<189, 0>>

\* MACRO_W, MACRO_H of a driver, in grid units
MacroSize(name) ==
    IF name = BIAS_NAME THEN <<OffTie(BIAS_MACRO_W), OffTie(BIAS_MACRO_H)>>
    ELSE IF name = SC_NAME THEN <<OffTie(SC_MACRO_W), OffTie(SC_MACRO_H)>>
    ELSE IF name = SAR_NAME THEN <<OffTie(SAR_MACRO_W), OffTie(SAR_MACRO_H)>>
    ELSE IF name = SVF_NAME THEN <<OffTie(SVF_MACRO_W), OffTie(SVF_MACRO_H)>>
    ELSE <<OffTie(R2R_MACRO_W), OffTie(R2R_MACRO_H)>>

\* the inserts of the driver on the boundary layer
BoundaryInserts == {k \in 1..Len(drv.ins) : drv.ins[k].layer = L_BOUNDARY}

\* C19 as claimed: a macro driver that has ended has inserted exactly one
\* boundary rectangle, (0,0)-(MACRO_W,MACRO_H) on the boundary layer, and it
\* is the last rectangle the driver inserted.
C19_OneBoundaryInsertedLast ==
    (DriverEnded /\ drv.name \in DriverNames) =>
        /\ Cardinality(BoundaryInserts) = 1
        /\ BoundaryInserts = {Len(drv.ins)}
        /\ \A k \in BoundaryInserts :
               ShapeOf(drv.ins[k]).box =
                   Box(0, 0, MacroSize(drv.name)[1], MacroSize(drv.name)[2])

\* C20 as claimed: every rectangle a builder or driver asks for has, after
\* conversion to grid units, x1 < x2 and y1 < y2.
C20_EveryRectangleProper ==
    \A k \in 1..Len(drv.ins) :
        /\ drv.ins[k].l < drv.ins[k].r
        /\ drv.ins[k].b < drv.ins[k].t

\* a primitive builder called on its own has returned
BuilderReturned(ops) ==
    /\ last.op \in ops
    /\ drv.name = ""
    /\ last.inserted > 0
    /\ Len(drv.ins) = last.inserted

\* a connection point is the centre of an inserted rectangle / lies on it,
\* the point taken to the grid as rect() takes coordinates
CentreOf(q, p) == 2 * OffTie(p[1]) = q.l + q.r /\ 2 * OffTie(p[2]) = q.b + q.t
LiesOn(q, p) ==
    /\ q.l <= OffTie(p[1]) /\ OffTie(p[1]) <= q.r
    /\ q.b <= OffTie(p[2]) /\ OffTie(p[2]) <= q.t
CentreOfSome(L, p) ==
    \E k \in 1..Len(drv.ins) : drv.ins[k].layer = L /\ CentreOf(drv.ins[k], p)
LiesOnSome(Ls, p) ==
    \E k \in 1..Len(drv.ins) : drv.ins[k].layer \in Ls /\ LiesOn(drv.ins[k], p)

\* both end points of a resistor are centres of its contacts
ResistorPointsOnContacts ==
    BuilderReturned({"draw_resistor_h", "draw_resistor_v"}) =>
        /\ CentreOfSome(L_CONT, last.ret[1])
        /\ CentreOfSome(L_CONT, last.ret[2])
        /\ last.ret[1] # last.ret[2]

\* gate on the gate rectangle, source and drain at the contacts' centres
TransistorPointsOnDevice ==
    BuilderReturned(TransistorOps) =>
        /\ LiesOnSome({L_GATPOLY}, last.ret[1])
        /\ CentreOfSome(L_CONT, last.ret[2])
        /\ CentreOfSome(L_CONT, last.ret[3])

\* bottom-center on the Metal5 bottom plate, top-center on a rectangle of
\* another layer
CapacitorPointsOnPlates ==
    BuilderReturned({"draw_mim_cap"}) =>
        /\ LiesOnSome({L_METAL5}, last.ret[1])
        /\ LiesOnSome({L_CMIM, L_TOPMETAL1}, last.ret[2])

\* the capacitor builder of gen_svf.py also emits a TopMetal1 rectangle
\* 0.1 um around the Cmim plate; its top-center lies on the edge of it
SvfCapacitorPointsOnPlates ==
    BuilderReturned({"svf_draw_mim_cap"}) =>
        /\ LiesOnSome({L_METAL5}, last.ret[1])
        /\ LiesOnSome({L_TOPMETAL1}, last.ret[2])
        /\ ~LiesOnSome({L_CMIM}, last.ret[2])

\* C21 as claimed: every connection point a primitive builder returns lies on
\* geometry the same call emitted for the conductor it names: resistor ends
\* and transistor source and drain at the centres of contacts, the gate on
\* the gate rectangle, the capacitor's bottom-center on the bottom plate and
\* its top-center on an emitted top-plate rectangle other than the bottom
\* plate.
C21_ConnectionPointsOnOwnGeometry ==
    /\ ResistorPointsOnContacts
    /\ TransistorPointsOnDevice
    /\ CapacitorPointsOnPlates

\* the rectangle an insert asked for lies within the boundary of the macro
WithinBoundary(q, name) ==
    /\ 0 <= ShapeOf(q).box.x1
    /\ 0 <= ShapeOf(q).box.y1
    /\ ShapeOf(q).box.x2 <= MacroSize(name)[1]
    /\ ShapeOf(q).box.y2 <= MacroSize(name)[2]

\* C22 as claimed: every rectangle a macro driver inserts, on any layer, lies
\* within the placement boundary (0,0)-(MACRO_W,MACRO_H) of its macro.
C22_InsertsWithinBoundary ==
    drv.name # "" =>
        \A k \in 1..Len(drv.ins) : WithinBoundary(drv.ins[k], drv.name)

\* the ladder drivers do keep their rectangles within the boundary
C22_LadderInsertsWithinBoundary ==
    drv.name \in DriverNames =>
        \A k \in 1..Len(drv.ins) : WithinBoundary(drv.ins[k], drv.name)

\* a build function has raised: the error is at the top level of the script
BuildRaised == drv.pc = "raised" /\ drv.error # "none"

\* C23: a layout file is written only when the build function of the macro
\* has returned; once a build function has raised, the script has ended with
\* the error: no file is written from then on and no further macro is built.
C23_WrittenOnlyAfterBuildReturned ==
    /\ [][(gds'.written /\ ~gds.written) =>
              (drv.pc \in {"none", "returned"} /\ drv.error = "none")]_vars
    /\ [](BuildRaised => [](BuildRaised /\ ~gds.written))

\* a build function has raised and the checker later found no layout file
C23_Witness ==
    /\ BuildRaised
    /\ ~gds.written
    /\ raised = "RuntimeError"
    /\ Len(drv.ins) > 0

\* distance between two inserted rectangles along the x axis / the y axis
\* (negative when they overlap in that direction)
GapAlongX(p, q) == IF p.r <= q.l THEN q.l - p.r
                   ELSE IF q.r <= p.l THEN p.l - q.r
                   ELSE -1
GapAlongY(p, q) == IF p.t <= q.b THEN q.b - p.t
                   ELSE IF q.t <= p.b THEN p.b - q.t
                   ELSE -1

\* C24 as claimed: in every resistor of the horizontal or vertical builder
\* the distance along the resistor between each end contact and the
\* silicide-block rectangle is at least SAL_SPACE_CONT (0.20 um).
C24_SalBlockClearOfContacts ==
    BuilderReturned({"draw_resistor_h", "draw_resistor_v"}) =>
        \A s, c \in 1..Len(drv.ins) :
            (drv.ins[s].layer = L_SALBLOCK /\ drv.ins[c].layer = L_CONT) =>
                IF last.op = "draw_resistor_h"
                THEN GapAlongX(drv.ins[s], drv.ins[c]) >= OffTie(SAL_SPACE_CONT)
                ELSE GapAlongY(drv.ins[s], drv.ins[c]) >= OffTie(SAL_SPACE_CONT)

\* what the builders keep: the silicide block ends (PAD_W - CONT_SIZE) / 2 =
\* 0.08 um from each contact, for every body length and width
C24_SalBlockClearance ==
    BuilderReturned({"draw_resistor_h", "draw_resistor_v"}) =>
        \A s, c \in 1..Len(drv.ins) :
            (drv.ins[s].layer = L_SALBLOCK /\ drv.ins[c].layer = L_CONT) =>
                (IF last.op = "draw_resistor_h"
                 THEN GapAlongX(drv.ins[s], drv.ins[c])
                 ELSE GapAlongY(drv.ins[s], drv.ins[c]))
                    \in {OffTie((PAD_W - CONT_SIZE) \div 2) - 1,
                         OffTie((PAD_W - CONT_SIZE) \div 2),
                         OffTie((PAD_W - CONT_SIZE) \div 2) + 1}

\* the via builders: cut size, and the minimum enclosure and minimum width
\* of the pad below and of the pad above
ViaOps == {"draw_via1", "draw_via2"}
ViaSize == IF last.op = "draw_via1" THEN VIA1_SIZE ELSE VIA2_SIZE
ViaEnc  == IF last.op = "draw_via1" THEN <<VIA1_ENC_M1, VIA1_ENC_M2>>
           ELSE <<VIA2_ENC_M2, VIA2_ENC_M3>>
ViaPadWidth == IF last.op = "draw_via1" THEN <<M1_WIDTH, M2_WIDTH>>
               ELSE <<M2_WIDTH, 200 * SUB>>

\* the pad encloses the cut by at least enc on all four sides
Encloses(pad, cut, enc) ==
    /\ cut.l - pad.l >= enc
    /\ cut.b - pad.b >= enc
    /\ pad.r - cut.r >= enc
    /\ pad.t - cut.t >= enc

\* the cell with the one via stack has been written and checked
ViaChecked == last.op \in ViaOps /\ drv.name = "" /\ gds.written /\ Returned

\* C25 as claimed: for every centre the via builders emit a cut with sides of
\* exactly the via size and pads below and above that enclose the cut by at
\* least the layer's minimum via enclosure on all four sides after rounding,
\* each pad at least as wide as its layer's minimum width; the checker then
\* reports no violation of the via width and via enclosure rules.
C25_ViaStackMeetsRules ==
    /\ BuilderReturned(ViaOps) =>
           LET cut == drv.ins[1]
           IN  /\ cut.r - cut.l = OffTie(ViaSize)
               /\ cut.t - cut.b = OffTie(ViaSize)
               /\ \A k \in 1..2 :
                      /\ Encloses(drv.ins[k + 1], cut, OffTie(ViaEnc[k]))
                      /\ drv.ins[k + 1].r - drv.ins[k + 1].l >= OffTie(ViaPadWidth[k])
                      /\ drv.ins[k + 1].t - drv.ins[k + 1].b >= OffTie(ViaPadWidth[k])
    /\ ViaChecked =>
           /\ CountOf("V1.a") = 0
           /\ CountOf("V1.c") = 0
           /\ CountOf("M2.c") = 0

\* a via stack whose centre is on the grid, or off it by less or more than
\* half a grid step, does meet the rules
C25_OffTieViaStackMeetsRules ==
    (last.op \in ViaOps /\ last.args # <<SUB \div 2, 0>>) =>
        C25_ViaStackMeetsRules

\* the loop over the weights of the capacitor DAC has ended
SarDacDone ==
    drv.name = SAR_NAME /\ drv.pc \in {"sample", "comp", "logic", "taps", "raised"}

\* the positions of the insert log that hold rectangles of capacitor plates
PlateIns == {k \in 1..Len(drv.ins) : drv.ins[k].role = "plate"}

\* the inserted rectangle of a layer that belongs to the plate of a weight
PlateRect(bit, L) ==
    drv.ins[CHOOSE k \in 1..Len(drv.ins) :
                drv.ins[k].net = bit /\ drv.ins[k].layer = L]

RECURSIVE SumUnits(_)
SumUnits(k) == IF k = 0 THEN 0 ELSE drv.bit_areas[k].nunits + SumUnits(k - 1)

AbsDiff(a, b) == IF a >= b THEN a - b ELSE b - a

\* C26: the capacitor DAC of the N-bit converter has N+1 plates with unit
\* counts 1 for weight 0 and 2^(bit-1) for weight bit >= 1, 2^N in all; the
\* area of each plate is its unit count times the unit-capacitor area (to
\* within the rounding of its sides to the grid) and both sides are at least
\* the minimum plate dimension.
C26_BinaryWeightedPlates ==
    /\ drv.name = SAR_NAME =>
           \A k \in 1..Len(drv.bit_areas) :
               LET p == drv.bit_areas[k]
                   q == PlateRect(p.bit, L_CMIM)
                   W == q.r - q.l
                   H == q.t - q.b
               IN  /\ p.bit = k - 1
                   /\ p.nunits = (IF p.bit = 0 THEN 1 ELSE 2 ^ (p.bit - 1))
                   /\ W >= OffTie(MIM_MIN_SIZE)
                   /\ H >= OffTie(MIM_MIN_SIZE)
                   /\ AbsDiff(W * H, (p.nunits * 4000000) \div 3) <= W + H + 1
    /\ SarDacDone =>
           /\ Len(drv.bit_areas) = NBITS + 1
           /\ SumUnits(Len(drv.bit_areas)) = 2 ^ NBITS

\* all plates of the 8-bit converter have been placed: 256 units
C26_Witness ==
    /\ SarDacDone
    /\ Len(drv.bit_areas) = 9
    /\ SumUnits(9) = 256
    /\ Cardinality(PlateIns) = 27

\* the usable height of the capacitor DAC, and what a plate needs above its
\* top: spacing and twice the enclosure
UsableHeight == SAR_MACRO_H - 6000 * SUB
PlateMargin  == MIM_SPACE + 2 * MIM_ENC_M5

\* Where the plates are, read off the rectangles the loop has inserted
\* (in nm): the cursor the loop has when it comes to the plate of weight
\* bit is the corner of the capacitor region for the first plate, and else
\* lies above the Cmim rectangle of the weight before by the margin and
\* 1 um, in that plate's column
CursorAt(bit) ==
    IF bit = 0 THEN <<OffTie(CAP_REGION_X), OffTie(CAP_REGION_Y)>>
    ELSE LET p == PlateRect(bit - 1, L_CMIM)
         IN  <<p.l, p.t + OffTie(PlateMargin) + 1000>>

\* two inserted rectangles share area
ShareArea(p, q) == p.l < q.r /\ q.l < p.r /\ p.b < q.t /\ q.b < p.t

\* C27: a plate whose top plus spacing and enclosure would exceed the usable
\* height (MACRO_H - 6) at the cursor is placed at the base of a new column,
\* any other plate at the cursor; every placed plate lies entirely below the
\* usable height, and plates of different columns do not overlap.  Stated on
\* the inserted rectangles: a coordinate is off the length it stands for by
\* at most half a nm, so sums of three are compared to within 2 nm.
C27_PlatesWrapIntoColumns ==
    drv.name = SAR_NAME =>
        /\ \A k \in 1..Len(drv.bit_areas) :
               LET q    == PlateRect(k - 1, L_CMIM)
                   c    == CursorAt(k - 1)
                   need == c[2] + (q.t - q.b) + OffTie(PlateMargin)
                   wrapped == /\ q.l = c[1] + OffTie(COLUMN_STEP)
                              /\ q.b = OffTie(CAP_REGION_Y)
                   stacked == /\ q.l = c[1]
                              /\ AbsDiff(q.b, c[2]) < 2
               IN  /\ wrapped \/ stacked
                   /\ need > OffTie(UsableHeight) + 2 => wrapped
                   /\ need < OffTie(UsableHeight) - 2 => stacked
        /\ \A k \in PlateIns : drv.ins[k].t <= OffTie(UsableHeight)
        /\ \A j, k \in PlateIns :
               (/\ drv.ins[j].net # drv.ins[k].net
                /\ PlateRect(drv.ins[j].net, L_CMIM).l
                       # PlateRect(drv.ins[k].net, L_CMIM).l)
                   => ~ShareArea(drv.ins[j], drv.ins[k])

\* the loop has ended with plates in three columns: plates were stacked,
\* and a plate that did not fit above the cursor stands at the base of the
\* next column
C27_Witness ==
    /\ SarDacDone
    /\ Cardinality({PlateRect(b, L_CMIM).l : b \in 0..NBITS}) = 3
    /\ \E b \in 1..NBITS :
           /\ PlateRect(b, L_CMIM).l = PlateRect(b - 1, L_CMIM).l
           /\ PlateRect(b, L_CMIM).b > PlateRect(b - 1, L_CMIM).t
    /\ \E b \in 1..NBITS :
           /\ CursorAt(b)[2] + (PlateRect(b, L_CMIM).t - PlateRect(b, L_CMIM).b)
                  + OffTie(PlateMargin) > OffTie(UsableHeight) + 2
           /\ PlateRect(b, L_CMIM).l = PlateRect(b - 1, L_CMIM).l + OffTie(COLUMN_STEP)
           /\ PlateRect(b, L_CMIM).b = OffTie(CAP_REGION_Y)

\* the fixed technology distance between an NMOS transistor and its tie
TIE_DISTANCE == 20000 * SUB

\* NMOS transistors of the driver's cell: their n+ implant rectangles; the
\* substrate ties: what a call of draw_ptap has inserted
NmosInserts == {k \in 1..Len(drv.ins) : drv.ins[k].layer = L_NSD}
TieInserts  == {k \in 1..Len(drv.ins) : drv.ins[k].role = "ptap"}

\* distance between two inserted rectangles: the larger of the gaps along
\* the two axes, 0 when they touch or overlap
Apart(p, q) == Max2(Max2(GapAlongX(p, q), GapAlongY(p, q)), 0)

\* C28 as claimed: no macro driver returns a cell that has an NMOS
\* transistor without a substrate tie within the technology distance (20 um).
C28_EveryNmosHasSubstrateTie ==
    drv.pc = "returned" =>
        \A k \in NmosInserts :
            \E j \in TieInserts :
                Apart(drv.ins[k], drv.ins[j]) <= OffTie(TIE_DISTANCE)

\* layers that conduct, and the pairs of them a via joins
RoutingLayers == {L_METAL1, L_VIA1, L_METAL2}
Stacked(L1, L2) == <<L1, L2>> \in {<<L_METAL1, L_VIA1>>, <<L_VIA1, L_METAL1>>,
                                   <<L_VIA1, L_METAL2>>, <<L_METAL2, L_VIA1>>}

\* two inserted rectangles are in electrical contact: on the same routing
\* layer and overlapping or touching, or stacked through a via and overlapping
Conducts(p, q) ==
    LET a == ShapeOf(p).box
        b == ShapeOf(q).box
    IN  /\ p.layer \in RoutingLayers
        /\ q.layer \in RoutingLayers
        /\ p.layer = q.layer \/ Stacked(p.layer, q.layer)
        /\ a.x1 <= b.x2 /\ b.x1 <= a.x2
        /\ a.y1 <= b.y2 /\ b.y1 <= a.y2

\* the rectangles in electrical contact, directly or through others, with
\* those of S
RECURSIVE Net(_)
Net(S) ==
    LET T == S \cup {k \in 1..Len(drv.ins) :
                        \E j \in S : Conducts(drv.ins[j], drv.ins[k])}
    IN  IF T = S THEN S ELSE Net(T)
Connected(j, k) == k \in Net({j})

\* index in the log of the first rectangle of the n-th device of a kind in a
\* channel (the devices of a kind are logged in the order of the bits)
DeviceStarts(ch, role, L) ==
    {k \in 1..Len(drv.ins) :
        drv.ins[k].ch = ch /\ drv.ins[k].role = role /\ drv.ins[k].layer = L}
Device(ch, role, L, n) ==
    CHOOSE k \in DeviceStarts(ch, role, L) :
        Cardinality({j \in DeviceStarts(ch, role, L) : j < k}) = n - 1

\* Metal1 pads of the n-th series resistor (left, right), of the n-th shunt
\* resistor (bottom, top) and of the drain of the n-th switch
SeriesLeft(ch, n)  == Device(ch, "series", L_GATPOLY, n) + 4
SeriesRight(ch, n) == Device(ch, "series", L_GATPOLY, n) + 6
ShuntBottom(ch, n) == Device(ch, "shunt", L_GATPOLY, n) + 4
ShuntTop(ch, n)    == Device(ch, "shunt", L_GATPOLY, n) + 6
SwitchDrain(ch, n) == Device(ch, "switch", L_ACTIV, n) + 6

\* consecutive series resistors are joined by metal
SeriesChained ==
    \A ch \in 1..Channels(drv.name) :
        \A n \in 1..(Channel(drv.name, ch).nbits - 1) :
            Connected(SeriesRight(ch, n), SeriesLeft(ch, n + 1))

\* each junction is joined by Metal1 to the top contact of its shunt, and
\* the shunt's bottom contact to the drain of its switch, which lies at the
\* x of the junction
ShuntsWired ==
    \A ch \in 1..Channels(drv.name) :
        \A n \in 1..Channel(drv.name, ch).nbits :
            LET jn == drv.ins[SeriesRight(ch, n)]
                dr == drv.ins[SwitchDrain(ch, n)]
            IN  /\ \E k \in 1..Len(drv.ins) :
                       /\ drv.ins[k].layer = L_METAL1
                       /\ drv.ins[k].role = "wire_top"
                       /\ Conducts(jn, drv.ins[k])
                       /\ Conducts(drv.ins[k], drv.ins[ShuntTop(ch, n)])
                /\ \E k \in 1..Len(drv.ins) :
                       /\ drv.ins[k].layer = L_METAL1
                       /\ drv.ins[k].role = "wire_drain"
                       /\ Conducts(drv.ins[ShuntBottom(ch, n)], drv.ins[k])
                       /\ Conducts(drv.ins[k], dr)
                /\ AbsDiff(jn.l + jn.r, dr.l + dr.r) <= 2

\* C29 as claimed: in a ladder channel every two consecutive series
\* resistors are joined by routing metal from the right end contact of the
\* earlier to the left end contact of the next, each junction is joined by
\* Metal1 to the top contact of its shunt resistor, and the shunt's bottom
\* contact by Metal1 to the drain of its switch at the x of the junction.
C29_LadderWiredIntoChain ==
    (LadderLoopDone /\ drv.name \in DriverNames) =>
        /\ SeriesChained
        /\ ShuntsWired

\* the part of C29 that the drivers do: the shunt branch of every junction
C29_ShuntBranchesWired ==
    (LadderLoopDone /\ drv.name \in DriverNames) => ShuntsWired

\* no two consecutive series resistors are joined by metal
C29_NoSeriesJoined ==
    (LadderLoopDone /\ drv.name \in DriverNames) =>
        \A ch \in 1..Channels(drv.name) :
            \A n \in 1..(Channel(drv.name, ch).nbits - 1) :
                ~Connected(SeriesRight(ch, n), SeriesLeft(ch, n + 1))

\* two inserted rectangles overlap or touch
Meet(p, q) ==
    LET a == ShapeOf(p).box
        b == ShapeOf(q).box
    IN  /\ a.x1 <= b.x2 /\ b.x1 <= a.x2
        /\ a.y1 <= b.y2 /\ b.y1 <= a.y2

\* the bodies of the resistors of a ladder, and the dielectric plates of the
\* capacitors of a filter macro
ResistorBodies ==
    {k \in 1..Len(drv.ins) :
        drv.ins[k].layer = L_GATPOLY /\ drv.ins[k].role \in {"series", "shunt"}}
CapacitorPlates ==
    {k \in 1..Len(drv.ins) : drv.ins[k].layer = L_CMIM /\ drv.ins[k].role = "cap"}

\* no two resistor bodies of a ladder overlap or touch
ResistorBodiesDisjoint ==
    drv.name \in DriverNames =>
        \A j, k \in ResistorBodies :
            j # k => ~Meet(drv.ins[j], drv.ins[k])

\* no two capacitor plates of the filter macro overlap or touch
CapacitorPlatesDisjoint ==
    drv.name = SC_NAME =>
        \A j, k \in CapacitorPlates :
            j # k => ~Meet(drv.ins[j], drv.ins[k])

\* C30 as claimed: in every macro the bodies of two distinct devices on the
\* same device layer never overlap or touch: the GatPoly bodies of any two
\* resistors of a ladder are disjoint, and so are the capacitor-dielectric
\* plates of any two capacitors of a filter macro.
C30_DeviceBodiesDisjoint ==
    /\ ResistorBodiesDisjoint
    /\ CapacitorPlatesDisjoint

\* series resistors among themselves are disjoint: the total length the
\* builder returns plus the gap is the pitch of the chain
C30_SeriesBodiesDisjoint ==
    drv.name \in DriverNames =>
        \A j, k \in ResistorBodies :
            (j # k /\ drv.ins[j].role = "series" /\ drv.ins[k].role = "series")
                => ~Meet(drv.ins[j], drv.ins[k])

====
